---- MODULE Spec2Model ----
(***************************************************************************)
(* PIM-Me: Azure PIM role listing and activation.                         *)
(*                                                                         *)
(* The model follows src/src/index.ts (the MCP server, the library's MCP  *)
(* server and pim-cli) and src/unnamed/part_000 (the library entry point). *)
(*                                                                         *)
(* A JavaScript string is a sequence of symbols (a symbol is a character   *)
(* or an indivisible chunk of text), so that String.prototype.includes,    *)
(* toLowerCase, split("/").pop() and template concatenation are computed.  *)
(***************************************************************************)
EXTENDS Integers, Sequences, FiniteSets, TLC

VARIABLES
    pc,               \* position of the running activatePimRolesCli call
    roles,            \* its argument roles
    justification,    \* its argument justification
    durationHours,    \* its argument durationHours (default already applied)
    durationArg,      \* the duration as the caller gave it
    userPrincipalId,  \* local const userPrincipalId
    listResult,       \* local const listResult
    idx,              \* position of the for-of loop over roles (1-based)
    activatedRoles,   \* local activatedRoles
    failedRoles,      \* local failedRoles
    result,           \* the value the promise resolved to
    calls,            \* the external az commands issued so far, in order
    matchLog,         \* per processed reference: index of the record found
    env,              \* process.env (the three PIM_* variables)
    cwdFile,          \* content of <cwd>/.pim-me-mcp.json
    homeFile,         \* content of ~/.pim-me-mcp.json
    cwdIsHome,        \* whether process.cwd() is the home directory
    savePc,           \* position of the running saveQuickRolesConfig call
    saveArgs,         \* its arguments
    saveConfig,       \* its local variable config, as read from the file
    saveResult,       \* the value it returned
    fresh,            \* no source was touched since the last save returned
    loadResult,       \* what loadQuickRolesConfig returned since the last change
    loadAfter,        \* that load directly followed a successful save
    tool,             \* request.params of the tool call being handled
    toolPc,           \* position of the handler of that call
    toolResult,       \* what the handler returned
    azList,           \* the answer to the handler's eligibility listing command
    toolList,         \* the result of its listEligibleRoles() call
    azActive,         \* the answer to the handler's active-roles listing command
    toolActive,       \* the result of its listActiveRoles() call
    shown,            \* the roles the latest list_quick_roles result showed the client
    prior,            \* the config the latest finished activate_quick_roles call used
    served,           \* the number of requests the server has answered
    untypedRoles      \* the roles argument when it is not an array of role objects

batchVars == <<pc, roles, justification, durationHours, durationArg, userPrincipalId,
               listResult, idx, activatedRoles, failedRoles, result, calls,
               matchLog>>
configVars == <<env, cwdFile, homeFile, cwdIsHome, savePc, saveArgs,
                saveConfig, saveResult, fresh, loadResult, loadAfter>>
toolVars == <<tool, toolPc, toolResult, azList, toolList, azActive, toolActive,
              shown, prior, served, untypedRoles>>
vars == <<batchVars, configVars, toolVars>>

----------------------------------------------------------------------------
(* Bounds *)

MaxRoles == 2      \* longest roles argument of a batch
MaxRecords == 2    \* longest value array of a listing response
MaxSaveRoles == 1  \* longest roles argument of a save
MaxToolRoles == 1  \* longest roles argument of activate_pim_roles
MaxIndices == 2    \* longest indices argument of save_quick_roles
MaxRequests == 2   \* most requests of a server session

----------------------------------------------------------------------------
(* JavaScript strings *)

\* the value undefined, where a string is expected
Undefined == <<"<undefined>">>

Truthy(s) == s # Undefined /\ s # <<>>

\* a || b on optional strings
OrElse(a, b) == IF Truthy(a) THEN a ELSE b

ToLowerSym(c) ==
    CASE c = "A" -> "a"
      [] c = "B" -> "b"
      [] c = "C" -> "c"
      [] c = "X" -> "x"
      [] c = "Y" -> "y"
      [] c = "U" -> "u"
      [] c = "R" -> "r"
      [] OTHER -> c

toLowerCase(s) == [i \in 1..Len(s) |-> ToLowerSym(s[i])]

\* s.includes(t)
includes(s, t) ==
    \E i \in 0..(Len(s) - Len(t)) : SubSeq(s, i + 1, i + Len(t)) = t

\* s.split("/").pop()
SplitPop(s) ==
    LET slashes == {i \in 1..Len(s) : s[i] = "/"}
        last == IF slashes = {} THEN 0
                ELSE CHOOSE i \in slashes : \A j \in slashes : j <= i
    IN SubSeq(s, last + 1, Len(s))

\* `${name} (${scope})`
RoleIdentifier(role) == role.name \o <<" ", "(">> \o role.scope \o <<")">>

----------------------------------------------------------------------------
(* pim-cli: the inputs of a run and the answers of the external commands *)

Str(a) == <<a>>

\* role references a caller can pass (RoleConfig)
RoleRefs ==
    { [name |-> <<"a", "b">>, scope |-> <<"x">>],
      [name |-> <<"a">>,      scope |-> <<>>],
      [name |-> <<"c">>,      scope |-> <<"x">>] }

Justifications == { Str("dev work") }

NoDuration == [given |-> FALSE, hours |-> 0]

\* the durationHours argument as the caller gives it
DurationArgs == { [given |-> FALSE, hours |-> 0], [given |-> TRUE, hours |-> 1] }

\* what `az account get-access-token` can answer: the command fails, or it
\* prints a token with so many segments whose payload decodes to claims
TokenAnswers ==
    { [ok |-> FALSE, parts |-> 0, json |-> FALSE, oid |-> Undefined],
      [ok |-> TRUE,  parts |-> 1, json |-> FALSE, oid |-> Undefined],
      [ok |-> TRUE,  parts |-> 3, json |-> FALSE, oid |-> Undefined],
      [ok |-> TRUE,  parts |-> 3, json |-> TRUE,  oid |-> Undefined],
      [ok |-> TRUE,  parts |-> 3, json |-> TRUE,  oid |-> Str("user-1")] }

\* entries of the value array of the roleEligibilityScheduleInstances answer
\* (item.id and item.properties.*; Undefined is a missing property)
EligibilityItems ==
    { [id |-> Str("i1"), roleDefinitionId |-> Str("rd1"), displayName |-> <<"b">>,
       scope |-> <<"/", "x">>, scopeDisplayName |-> Undefined,
       principalId |-> Str("user-1"), memberType |-> Undefined,
       roleEligibilityScheduleId |-> Str("sched-1")],
      [id |-> Str("i2"), roleDefinitionId |-> Str("rd2"), displayName |-> <<"a", "b">>,
       scope |-> <<"/", "x">>, scopeDisplayName |-> <<"X">>,
       principalId |-> Str("group-1"), memberType |-> Str("Group"),
       roleEligibilityScheduleId |-> Str("sched-2")],
      [id |-> Str("i3"), roleDefinitionId |-> Str("rd3"), displayName |-> <<"A">>,
       scope |-> <<"/", "x", "/", "y">>, scopeDisplayName |-> Undefined,
       principalId |-> Str("group-1"), memberType |-> Str("Group"),
       roleEligibilityScheduleId |-> Undefined] }

RECURSIVE SeqsUpTo(_, _)
SeqsUpTo(S, n) ==
    IF n = 0 THEN { <<>> }
    ELSE LET shorter == SeqsUpTo(S, n - 1)
         IN shorter \cup { Append(q, x) : q \in shorter, x \in S }

\* what `az rest --method GET` can answer for the eligibility listing: the
\* command fails, or it prints text that is not JSON, or a document whose
\* value array holds the items
ListAnswers ==
    { [ok |-> FALSE, json |-> FALSE, value |-> <<>>,
       error |-> <<"Azure CLI error: ", "az rest">>],
      [ok |-> TRUE, json |-> FALSE, value |-> <<>>,
       error |-> Str("Unexpected token < in JSON")] }
    \cup { [ok |-> TRUE, json |-> TRUE, value |-> v, error |-> <<>>] :
             v \in SeqsUpTo(EligibilityItems, MaxRecords) }

\* entries of the value array of the roleAssignmentScheduleInstances answer
ActiveItems ==
    { [id |-> Str("a1"), roleDefinitionId |-> Str("rd1"), displayName |-> <<"b">>,
       scope |-> <<"/", "x">>, scopeDisplayName |-> Undefined,
       principalId |-> Str("user-1"), principalType |-> Str("User"),
       memberType |-> Undefined, status |-> Str("Provisioned"),
       startDateTime |-> Str("t0"), endDateTime |-> Str("t1"),
       assignmentType |-> Str("Activated")],
      [id |-> Str("a2"), roleDefinitionId |-> Str("rd2"), displayName |-> <<"a", "b">>,
       scope |-> <<"/", "x">>, scopeDisplayName |-> <<"X">>,
       principalId |-> Str("user-1"), principalType |-> Str("User"),
       memberType |-> Str("Direct"), status |-> Undefined,
       startDateTime |-> Str("t0"), endDateTime |-> Undefined,
       assignmentType |-> Str("Assigned")],
      [id |-> Str("a3"), roleDefinitionId |-> Str("rd3"), displayName |-> <<"A">>,
       scope |-> <<"/", "x", "/", "y">>, scopeDisplayName |-> Undefined,
       principalId |-> Str("group-1"), principalType |-> Str("Group"),
       memberType |-> Str("Group"), status |-> Str("Provisioned"),
       startDateTime |-> Undefined, endDateTime |-> Undefined,
       assignmentType |-> Undefined],
      [id |-> Str("a4"), roleDefinitionId |-> Str("rd1"), displayName |-> <<"c">>,
       scope |-> <<"/", "x">>, scopeDisplayName |-> Undefined,
       principalId |-> Str("user-1"), principalType |-> Str("User"),
       memberType |-> Undefined, status |-> Str("Provisioned"),
       startDateTime |-> Str("t0"), endDateTime |-> Undefined,
       assignmentType |-> <<"a", "c", "t", "i", "v", "a", "t", "e", "d">>] }

\* what `az rest --method GET` can answer for the listing of active roles
ActiveAnswers ==
    { [ok |-> FALSE, json |-> FALSE, value |-> <<>>,
       error |-> <<"Azure CLI error: ", "az rest">>],
      [ok |-> TRUE, json |-> FALSE, value |-> <<>>,
       error |-> Str("Unexpected token < in JSON")] }
    \cup { [ok |-> TRUE, json |-> TRUE, value |-> v, error |-> <<>>] :
             v \in SeqsUpTo(ActiveItems, MaxRecords) }

\* what `az rest --method PUT` can answer: the command fails with a message,
\* or prints a document (parseable or not) with or without status and id
PutAnswers ==
    { [ok |-> FALSE, json |-> FALSE, status |-> Undefined, hasId |-> FALSE,
       error |-> <<"Azure CLI error: ", "RoleAssignmentExists">>],
      [ok |-> FALSE, json |-> FALSE, status |-> Undefined, hasId |-> FALSE,
       error |-> <<"Azure CLI error: ", "The role assignment ", "already exists", ".">>],
      [ok |-> FALSE, json |-> FALSE, status |-> Undefined, hasId |-> FALSE,
       error |-> <<"Azure CLI error: ", "AuthorizationFailed">>],
      [ok |-> TRUE, json |-> TRUE, status |-> Str("Provisioned"), hasId |-> TRUE,
       error |-> <<>>] }

----------------------------------------------------------------------------
(* pim-cli: pure parts *)

\* getCurrentUserPrincipalId: the oid claim, or the error it throws
IdentityOf(t) ==
    IF ~t.ok THEN [ok |-> FALSE, oid |-> Undefined, error |-> <<"Azure CLI error: ", "az login">>]
    ELSE IF t.parts < 2 THEN [ok |-> FALSE, oid |-> Undefined, error |-> Str("Invalid token format")]
    ELSE IF ~t.json THEN [ok |-> FALSE, oid |-> Undefined, error |-> Str("Unexpected token")]
    ELSE IF ~Truthy(t.oid) THEN [ok |-> FALSE, oid |-> Undefined, error |-> Str("No oid claim in token")]
    ELSE [ok |-> TRUE, oid |-> t.oid, error |-> <<>>]

\* the record listEligibleRolesCli pushes for one item of the answer
EligibleRecord(item) ==
    [ id |-> OrElse(item.id, <<>>),
      roleDefinitionId |-> OrElse(item.roleDefinitionId, <<>>),
      roleName |-> OrElse(item.displayName, <<"U", "n", "k", "n", "o", "w", "n", " ", "R", "o", "l", "e">>),
      scope |-> OrElse(item.scope, <<>>),
      scopeName |-> OrElse(item.scopeDisplayName,
                      OrElse(IF item.scope = Undefined THEN Undefined ELSE SplitPop(item.scope),
                        OrElse(item.scope, <<>>))),
      principalId |-> OrElse(item.principalId, <<>>),
      memberType |-> OrElse(item.memberType, Str("Direct")),
      roleEligibilityScheduleId |-> OrElse(item.roleEligibilityScheduleId, Undefined) ]

\* variant of ListEligible: the error text is left out of the message
ListEligible_noErrorText(a) ==
    IF a.ok /\ a.json
    THEN [ success |-> TRUE,
           roles |-> [i \in 1..Len(a.value) |-> EligibleRecord(a.value[i])],
           message |-> <<"Found ", ToString(Len(a.value)), " eligible PIM role assignments.">> ]
    ELSE [ success |-> FALSE, roles |-> <<>>, message |-> <<"Error listing PIM roles: ">> ]

\* listEligibleRolesCli: its result for an answer of the command
ListEligible(a) ==
    IF a.ok /\ a.json
    THEN [ success |-> TRUE,
           roles |-> [i \in 1..Len(a.value) |-> EligibleRecord(a.value[i])],
           message |-> <<"Found ", ToString(Len(a.value)), " eligible PIM role assignments.">> ]
    ELSE [ success |-> FALSE, roles |-> <<>>,
           message |-> <<"Error listing PIM roles: ">> \o a.error ]

\* the record listActiveRolesCli pushes for one item of the answer
ActiveRecord(item) ==
    [ id |-> OrElse(item.id, <<>>),
      roleDefinitionId |-> OrElse(item.roleDefinitionId, <<>>),
      roleName |-> OrElse(item.displayName, <<"U", "n", "k", "n", "o", "w", "n", " ", "R", "o", "l", "e">>),
      scope |-> OrElse(item.scope, <<>>),
      scopeName |-> OrElse(item.scopeDisplayName,
                      OrElse(IF item.scope = Undefined THEN Undefined ELSE SplitPop(item.scope),
                        OrElse(item.scope, <<>>))),
      principalId |-> OrElse(item.principalId, <<>>),
      principalType |-> OrElse(item.principalType, <<>>),
      memberType |-> OrElse(item.memberType, Str("Direct")),
      status |-> OrElse(item.status, Str("Active")),
      startDateTime |-> item.startDateTime,
      endDateTime |-> item.endDateTime ]

\* variant of IsActivated: any entry that has an assignmentType is kept
IsActivated_anyType(item) == Truthy(item.assignmentType)

\* props.assignmentType !== "Activated" is false
IsActivated(item) == item.assignmentType = Str("Activated")

\* the items of the answer that listActiveRolesCli does not skip
RECURSIVE ActivatedItems(_)
ActivatedItems(value) ==
    IF value = <<>> THEN <<>>
    ELSE IF IsActivated(value[1]) THEN <<value[1]>> \o ActivatedItems(Tail(value))
    ELSE ActivatedItems(Tail(value))

\* listActiveRolesCli: its result for an answer of the command
ListActive(a) ==
    IF a.ok /\ a.json
    THEN LET kept == ActivatedItems(a.value)
         IN [ success |-> TRUE,
              roles |-> [i \in 1..Len(kept) |-> ActiveRecord(kept[i])],
              message |-> <<"Found ", ToString(Len(kept)), " active PIM role assignments.">> ]
    ELSE [ success |-> FALSE, roles |-> <<>>,
           message |-> <<"Error listing active PIM roles: ">> \o a.error ]

\* variant of nameMatch: the name is tested in one direction only
nameMatch_reverseOnly(r, role) ==
    includes(toLowerCase(role.name), toLowerCase(r.roleName))

\* the predicate of listResult.roles.find(...)
nameMatch(r, role) ==
    LET roleName == toLowerCase(r.roleName)
        name == toLowerCase(role.name)
    IN \/ includes(roleName, name)
       \/ includes(name, roleName)

\* variant of scopeMatch: the display scope is not looked for in the request
scopeMatch_forwardOnly(r, role) ==
    LET wanted == toLowerCase(role.scope)
    IN \/ includes(toLowerCase(r.scope), wanted)
       \/ includes(toLowerCase(r.scopeName), wanted)

scopeMatch(r, role) ==
    LET wanted == toLowerCase(role.scope)
        scopeName == toLowerCase(r.scopeName)
    IN \/ includes(toLowerCase(r.scope), wanted)
       \/ includes(scopeName, wanted)
       \/ includes(wanted, scopeName)

Matches(r, role) == nameMatch(r, role) /\ scopeMatch(r, role)

\* Array.prototype.find as an index: the first matching record, 0 if none
FindMatch(records, role) ==
    LET hits == {i \in 1..Len(records) : Matches(records[i], role)}
    IN IF hits = {} THEN 0 ELSE CHOOSE i \in hits : \A j \in hits : i <= j

\* variants of LinkedScheduleId: the test misspells the member type; the
\* test is left out
LinkedScheduleId_lowercase(matchingRole) ==
    IF matchingRole.memberType = Str("group")
    THEN matchingRole.roleEligibilityScheduleId
    ELSE Undefined

LinkedScheduleId_always(matchingRole) == matchingRole.roleEligibilityScheduleId

\* the linkedScheduleId that activatePimRolesCli passes on
LinkedScheduleId(matchingRole) ==
    IF matchingRole.memberType = Str("Group")
    THEN matchingRole.roleEligibilityScheduleId
    ELSE Undefined

\* variant of ActivationPrincipal: the record's principal is passed on
ActivationPrincipal_record(matchingRole, uid) == matchingRole.principalId

\* the principal that activatePimRolesCli passes on
ActivationPrincipal(matchingRole, uid) == uid

\* requestBody.properties of activateRoleCli; a property that is not set is
\* not in the domain
\* the activationUrl of the PUT: the request is named by a fresh UUID
ActivationUrl(scope) ==
    <<"https://management.azure.com">> \o scope
    \o <<"/providers/Microsoft.Authorization/roleAssignmentScheduleRequests/",
         "randomUUID()", "?api-version=2020-10-01">>

\* variant of RequestBody: the duration is given in minutes
RequestBody_minutes(roleDefinitionId, uid, just, hours, linked) ==
    LET keys == {"principalId", "roleDefinitionId", "requestType", "justification",
                 "expirationType", "expirationDuration"}
                \cup (IF Truthy(linked) THEN {"linkedRoleEligibilityScheduleId"} ELSE {})
    IN [k \in keys |->
          CASE k = "principalId" -> uid
            [] k = "roleDefinitionId" -> roleDefinitionId
            [] k = "requestType" -> Str("SelfActivate")
            [] k = "justification" -> just
            [] k = "expirationType" -> Str("AfterDuration")
            [] k = "expirationDuration" -> <<"PT", ToString(hours), "M">>
            [] k = "linkedRoleEligibilityScheduleId" -> linked]

RequestBody(roleDefinitionId, uid, just, hours, linked) ==
    LET keys == {"principalId", "roleDefinitionId", "requestType", "justification",
                 "expirationType", "expirationDuration"}
                \cup (IF Truthy(linked) THEN {"linkedRoleEligibilityScheduleId"} ELSE {})
    IN [k \in keys |->
          CASE k = "principalId" -> uid
            [] k = "roleDefinitionId" -> roleDefinitionId
            [] k = "requestType" -> Str("SelfActivate")
            [] k = "justification" -> just
            [] k = "expirationType" -> Str("AfterDuration")
            [] k = "expirationDuration" -> <<"PT", ToString(hours), "H">>
            [] k = "linkedRoleEligibilityScheduleId" -> linked]

\* variant of AlreadyActivated: only the error code is recognised
AlreadyActivated_codeOnly(errorMessage) ==
    includes(errorMessage, Str("RoleAssignmentExists"))

\* activateRoleCli: its result for an answer of the PUT
AlreadyActivated(errorMessage) ==
    \/ includes(errorMessage, Str("RoleAssignmentExists"))
    \/ includes(errorMessage, Str("already exists"))

ActivationResult(a) ==
    LET errorMessage == IF a.ok THEN Str("Unexpected token") ELSE a.error
    IN IF a.ok /\ a.json
       THEN IF Truthy(a.status) \/ a.hasId
            THEN [success |-> TRUE,
                  message |-> <<"Role activation ", OrElse(a.status, Str("submitted"))[1], " successfully">>]
            ELSE [success |-> TRUE, message |-> Str("Role activation request submitted")]
       ELSE IF AlreadyActivated(errorMessage)
            THEN [success |-> TRUE, message |-> Str("Role is already activated")]
            ELSE [success |-> FALSE, message |-> Str("Failed to activate role: ") \o errorMessage]

----------------------------------------------------------------------------
(* pim-cli: activatePimRolesCli as a process *)

\* durationHours: number = 8
DefaultDurationHours == 8

NoResult == [returned |-> FALSE, success |-> FALSE, activatedRoles |-> <<>>,
             failedRoles |-> <<>>, message |-> <<>>, threw |-> FALSE]

\* the roles argument is an array of {name, scope} objects, held in roles
NoUntypedRoles == [t |-> "none"]

RolesTyped == untypedRoles = NoUntypedRoles

\* the promise is rejected: roles.filter(...) in the catch block threw
Rejected(errorMessage) ==
    [returned |-> FALSE, success |-> FALSE, activatedRoles |-> <<>>,
     failedRoles |-> <<>>, message |-> errorMessage, threw |-> TRUE]

\* the TypeError of roles.filter, roles.map or for-of on such a value
RolesTypeError == Str("TypeError: roles is not an array of role objects")

NoAnswer == [ok |-> FALSE, json |-> FALSE, status |-> Undefined, hasId |-> FALSE,
             error |-> <<>>]

NoToken == [ok |-> FALSE, parts |-> 0, json |-> FALSE, oid |-> Undefined]

NoList == [success |-> FALSE, roles |-> <<>>, message |-> <<>>]

Outcome(s, a, f, m) == [returned |-> TRUE, success |-> s, activatedRoles |-> a,
                        failedRoles |-> f, message |-> m, threw |-> FALSE]

\* variant of AllFailed: only the first role is recorded
AllFailed_first(rs, error) ==
    IF rs = <<>> THEN <<>>
    ELSE <<[role |-> RoleIdentifier(rs[1]), error |-> error]>>

\* roles.map(r => ({role: `${r.name} (${r.scope})`, error}))
AllFailed(rs, error) ==
    [i \in 1..Len(rs) |-> [role |-> RoleIdentifier(rs[i]), error |-> error]]

RECURSIVE FilterSeq(_, _)
FilterSeq(q, keep) ==
    IF q = <<>> THEN <<>>
    ELSE IF keep[1] THEN <<q[1]>> \o FilterSeq(Tail(q), Tail(keep))
    ELSE FilterSeq(Tail(q), Tail(keep))

\* variant of CatchFailed: the roles not yet handled are not recorded
CatchFailed_onlyEarlier(rs, activated, failed, errorMessage) == failed

\* the failedRoles of the catch block
CatchFailed(rs, activated, failed, errorMessage) ==
    LET keep == [i \in 1..Len(rs) |->
                   /\ \A j \in 1..Len(activated) : activated[j] # RoleIdentifier(rs[i])
                   /\ \A j \in 1..Len(failed) : failed[j].role # RoleIdentifier(rs[i])]
    IN failed \o AllFailed(FilterSeq(rs, keep), errorMessage)

\* variant of NormalSuccess: success when anything was activated
NormalSuccess_anyActivated(activated, failed) == Len(activated) > 0

\* the success field of the normal return
NormalSuccess(activated, failed) == Len(failed) = 0

\* the message of the normal return
SummaryMessage(activated, failed) ==
    IF Len(activated) > 0
    THEN <<"Successfully activated ", ToString(Len(activated)), " role(s).">>
         \o (IF Len(failed) > 0
             THEN <<" Failed to activate ", ToString(Len(failed)), " role(s).">>
             ELSE <<>>)
    ELSE Str("No roles were activated.")

NotFoundError(role) ==
    <<"Could not find eligible role matching \"">> \o role.name
    \o <<"\" at scope \"">> \o role.scope \o <<"\"">>

\* activatePimRolesCli(roles, justification, durationHours) is called
Start ==
    /\ pc = "idle"
    /\ \E rs \in SeqsUpTo(RoleRefs, MaxRoles), j \in Justifications, d \in DurationArgs :
         /\ roles' = rs
         /\ justification' = j
         /\ durationHours' = IF d.given THEN d.hours ELSE DefaultDurationHours
         /\ durationArg' = d
    /\ pc' = "token"
    /\ userPrincipalId' = Undefined
    /\ listResult' = NoList
    /\ idx' = 1
    /\ activatedRoles' = <<>>
    /\ failedRoles' = <<>>
    /\ result' = NoResult
    /\ calls' = <<>>
    /\ matchLog' = <<>>
    /\ UNCHANGED <<configVars, toolVars>>

\* await getCurrentUserPrincipalId(), and the catch block when it throws
ResolveIdentity ==
    /\ pc = "token"
    /\ \E t \in TokenAnswers :
         LET id == IdentityOf(t)
         IN /\ calls' = Append(calls, [cmd |-> "token", ref |-> 0, rec |-> 0,
                                        scope |-> <<>>, url |-> <<>>, body |-> <<>>,
                                        answer |-> NoAnswer, token |-> t])
            /\ IF id.ok
               THEN /\ userPrincipalId' = id.oid
                    /\ pc' = "list"
                    /\ UNCHANGED result
               ELSE /\ result' = IF RolesTyped
                                   THEN Outcome(FALSE, activatedRoles,
                                          CatchFailed(roles, activatedRoles, failedRoles, id.error),
                                          Str("Error during PIM activation: ") \o id.error)
                                   ELSE Rejected(RolesTypeError)
                    /\ pc' = "done"
                    /\ UNCHANGED userPrincipalId
    /\ UNCHANGED <<roles, justification, durationHours, durationArg, listResult, idx,
                   activatedRoles, failedRoles, matchLog>>
    /\ UNCHANGED <<configVars, toolVars>>

\* await listEligibleRolesCli(), and the early return when it failed
FetchEligible ==
    /\ pc = "list"
    /\ \E a \in ListAnswers :
         LET lr == ListEligible(a)
         IN /\ listResult' = lr
            /\ calls' = Append(calls, [cmd |-> "list", ref |-> 0, rec |-> 0,
                                        scope |-> <<>>, url |-> <<>>, body |-> <<>>,
                                        answer |-> NoAnswer, token |-> NoToken])
            /\ IF lr.success
               THEN /\ pc' = "loop"
                    /\ UNCHANGED result
               ELSE /\ result' = IF RolesTyped
                                   THEN Outcome(FALSE, <<>>, AllFailed(roles, lr.message),
                                                lr.message)
                                   ELSE Rejected(RolesTypeError)
                    /\ pc' = "done"
    /\ UNCHANGED <<roles, justification, durationHours, durationArg, userPrincipalId, idx,
                   activatedRoles, failedRoles, matchLog>>
    /\ UNCHANGED <<configVars, toolVars>>

\* variant of NoMatch: the loop is left (break) instead of continued
NoMatch_break ==
    /\ pc = "loop"
    /\ RolesTyped
    /\ idx <= Len(roles)
    /\ FindMatch(listResult.roles, roles[idx]) = 0
    /\ failedRoles' = Append(failedRoles, [role |-> RoleIdentifier(roles[idx]),
                                           error |-> NotFoundError(roles[idx])])
    /\ matchLog' = Append(matchLog, [rec |-> 0, to |-> "failed"])
    /\ idx' = Len(roles) + 1
    /\ UNCHANGED <<pc, roles, justification, durationHours, durationArg, userPrincipalId,
                   listResult, activatedRoles, result, calls>>
    /\ UNCHANGED <<configVars, toolVars>>

\* one iteration of the loop whose reference matches no record
NoMatch ==
    /\ pc = "loop"
    /\ RolesTyped
    /\ idx <= Len(roles)
    /\ FindMatch(listResult.roles, roles[idx]) = 0
    /\ failedRoles' = Append(failedRoles, [role |-> RoleIdentifier(roles[idx]),
                                           error |-> NotFoundError(roles[idx])])
    /\ matchLog' = Append(matchLog, [rec |-> 0, to |-> "failed"])
    /\ idx' = idx + 1
    /\ UNCHANGED <<pc, roles, justification, durationHours, durationArg, userPrincipalId,
                   listResult, activatedRoles, result, calls>>
    /\ UNCHANGED <<configVars, toolVars>>

\* variant of Activate: a failed submission is made again
Activate_retry ==
    /\ pc = "loop"
    /\ RolesTyped
    /\ idx <= Len(roles)
    /\ FindMatch(listResult.roles, roles[idx]) # 0
    /\ LET m == FindMatch(listResult.roles, roles[idx])
           matchingRole == listResult.roles[m]
           body == RequestBody(matchingRole.roleDefinitionId,
                               ActivationPrincipal(matchingRole, userPrincipalId),
                               justification, durationHours,
                               LinkedScheduleId(matchingRole))
       IN \E a \in PutAnswers :
            /\ calls' = Append(calls, [cmd |-> "put", ref |-> idx, rec |-> m,
                                        scope |-> matchingRole.scope,
                                        url |-> ActivationUrl(matchingRole.scope),
                                        body |-> body,
                                        answer |-> a, token |-> NoToken])
            /\ IF ActivationResult(a).success
               THEN /\ activatedRoles' = Append(activatedRoles, RoleIdentifier(roles[idx]))
                    /\ matchLog' = Append(matchLog, [rec |-> m, to |-> "activated"])
                    /\ idx' = idx + 1
                    /\ UNCHANGED failedRoles
               ELSE /\ Len(calls) < 2 + Len(roles)
                    /\ UNCHANGED <<activatedRoles, failedRoles, matchLog, idx>>
    /\ UNCHANGED <<pc, roles, justification, durationHours, durationArg, userPrincipalId,
                   listResult, result>>
    /\ UNCHANGED <<configVars, toolVars>>

\* one iteration of the loop whose reference matches: await activateRoleCli
Activate ==
    /\ pc = "loop"
    /\ RolesTyped
    /\ idx <= Len(roles)
    /\ FindMatch(listResult.roles, roles[idx]) # 0
    /\ LET m == FindMatch(listResult.roles, roles[idx])
           matchingRole == listResult.roles[m]
           body == RequestBody(matchingRole.roleDefinitionId,
                               ActivationPrincipal(matchingRole, userPrincipalId),
                               justification, durationHours,
                               LinkedScheduleId(matchingRole))
       IN \E a \in PutAnswers :
            /\ calls' = Append(calls, [cmd |-> "put", ref |-> idx, rec |-> m,
                                        scope |-> matchingRole.scope,
                                        url |-> ActivationUrl(matchingRole.scope),
                                        body |-> body,
                                        answer |-> a, token |-> NoToken])
            /\ IF ActivationResult(a).success
               THEN /\ activatedRoles' = Append(activatedRoles, RoleIdentifier(roles[idx]))
                    /\ matchLog' = Append(matchLog, [rec |-> m, to |-> "activated"])
                    /\ UNCHANGED failedRoles
               ELSE /\ failedRoles' = Append(failedRoles,
                                        [role |-> RoleIdentifier(roles[idx]),
                                         error |-> ActivationResult(a).message])
                    /\ matchLog' = Append(matchLog, [rec |-> m, to |-> "failed"])
                    /\ UNCHANGED activatedRoles
    /\ idx' = idx + 1
    /\ UNCHANGED <<pc, roles, justification, durationHours, durationArg, userPrincipalId,
                   listResult, result>>
    /\ UNCHANGED <<configVars, toolVars>>

\* for (const role of roles) on a value that cannot be iterated, or whose
\* first element is null: the TypeError is caught, and roles.filter in the
\* catch block throws another
NotIterable ==
    /\ pc = "loop"
    /\ ~RolesTyped
    /\ result' = Rejected(RolesTypeError)
    /\ pc' = "done"
    /\ UNCHANGED <<roles, justification, durationHours, durationArg, userPrincipalId, listResult,
                   idx, activatedRoles, failedRoles, calls, matchLog>>
    /\ UNCHANGED <<configVars, toolVars>>

\* the return after the loop
Return ==
    /\ pc = "loop"
    /\ RolesTyped
    /\ idx > Len(roles)
    /\ result' = Outcome(NormalSuccess(activatedRoles, failedRoles), activatedRoles, failedRoles,
                         SummaryMessage(activatedRoles, failedRoles))
    /\ pc' = "done"
    /\ UNCHANGED <<roles, justification, durationHours, durationArg, userPrincipalId, listResult,
                   idx, activatedRoles, failedRoles, calls, matchLog>>
    /\ UNCHANGED <<configVars, toolVars>>

----------------------------------------------------------------------------
(* Quick-roles config store: JavaScript values and JSON text *)

\* A JavaScript value is a record tagged by t.  The text of a file or of an
\* environment variable is absent, empty, not parseable, or the JSON text of
\* a value; JSON text is kept as the value JSON.parse gives for it.

JsUndefined == [t |-> "undefined"]
JsNull == [t |-> "null"]
JsNumber(n) == [t |-> "number", n |-> n]
JsString(str) == [t |-> "string", s |-> str]
NoProps == [k \in {} |-> JsNull]
JsObject(props) == [t |-> "object", props |-> props]
JsArray(items) == [t |-> "array", items |-> items, props |-> NoProps]

JsTruthy(v) ==
    CASE v.t = "undefined" -> FALSE
      [] v.t = "null" -> FALSE
      [] v.t = "number" -> v.n # 0
      [] v.t = "string" -> v.s # <<>>
      [] OTHER -> TRUE

\* v[k] for a value that is neither null nor undefined
GetProp(v, k) ==
    IF v.t \in {"object", "array"} /\ k \in DOMAIN v.props THEN v.props[k]
    ELSE JsUndefined

\* v[k] = x in strict mode: possible on objects and arrays only
CanSetProp(v) == v.t \in {"object", "array"}

SetProp(v, k, x) ==
    [v EXCEPT !.props = [j \in (DOMAIN v.props) \cup {k} |->
                            IF j = k THEN x ELSE v.props[j]]]

\* the value that the text JSON.stringify(v) parses to: properties whose
\* value is undefined are left out, an undefined array element becomes null,
\* the named properties of an array are left out
RECURSIVE Serialized(_)
Serialized(v) ==
    CASE v.t = "object" ->
           LET keep == {k \in DOMAIN v.props : v.props[k].t # "undefined"}
           IN JsObject([k \in keep |-> Serialized(v.props[k])])
      [] v.t = "array" ->
           JsArray([i \in 1..Len(v.items) |->
                      IF v.items[i].t = "undefined" THEN JsNull
                      ELSE Serialized(v.items[i])])
      [] OTHER -> v

Absent == [kind |-> "absent"]
Empty == [kind |-> "empty"]
Corrupt == [kind |-> "corrupt"]
JsonText(v) == [kind |-> "json", value |-> v]

\* JSON.stringify(v, null, 2)
stringify(v) == JsonText(Serialized(v))

\* JSON.parse(text) does not throw
Parses(text) == text.kind = "json"

JsRole(ref) == JsObject([name |-> JsString(ref.name), scope |-> JsString(ref.scope)])

JsRoles(refs) == JsArray([i \in 1..Len(refs) |-> JsRole(refs[i])])

\* the object literal {roles, description, defaultJustification}
QuickRolesObject(r, d, j) ==
    JsObject([roles |-> r, description |-> d, defaultJustification |-> j])

----------------------------------------------------------------------------
(* Quick-roles config store: the sources and the arguments *)

SavedRefs == { [name |-> <<"a", "b">>, scope |-> <<"x">>] }

StoredConfig ==
    Serialized(QuickRolesObject(JsRoles(<<[name |-> <<"c">>, scope |-> <<"x">>]>>),
                                JsString(Str("old set")), JsString(Str("old work"))))

\* process.env
Environments ==
    { [PIM_QUICK_ROLES |-> q, PIM_QUICK_ROLES_DESC |-> JsUndefined,
       PIM_DEFAULT_JUSTIFICATION |-> JsUndefined] :
         q \in { Absent, Empty, Corrupt, JsonText(JsNull), JsonText(StoredConfig) } }
    \cup
    { [PIM_QUICK_ROLES |-> JsonText(JsRoles(<<[name |-> <<"a">>, scope |-> <<>>]>>)),
       PIM_QUICK_ROLES_DESC |-> d, PIM_DEFAULT_JUSTIFICATION |-> d] :
         d \in { JsUndefined, JsString(Str("env text")) } }

\* content of <cwd>/.pim-me-mcp.json
CwdFiles ==
    { Absent, Corrupt, JsonText(JsNull),
      JsonText(JsObject([theme |-> JsNumber(1)])),
      JsonText(JsObject([quickRoles |-> StoredConfig])) }

\* content of ~/.pim-me-mcp.json
HomeFiles ==
    { Absent, Corrupt, JsonText(JsNull), JsonText(JsNumber(5)),
      JsonText(JsArray(<<JsNumber(1)>>)),
      JsonText(JsObject(NoProps)),
      JsonText(JsObject([theme |-> JsNumber(1)])),
      JsonText(JsObject([theme |-> JsNumber(1), quickRoles |-> JsNull])),
      JsonText(JsObject([theme |-> JsNumber(1), quickRoles |-> StoredConfig])) }

\* what another process writes to the home file
ExternalWrites ==
    { Absent, JsonText(JsObject([theme |-> JsNumber(2), lang |-> JsNumber(3)])) }

OptionalTexts == { JsUndefined, JsString(Str("daily work")) }

SaveArguments ==
    { [roles |-> JsRoles(r), description |-> d, defaultJustification |-> j] :
        r \in SeqsUpTo(SavedRefs, MaxSaveRoles),
        d \in { JsUndefined, JsString(Str("my set")) },
        j \in OptionalTexts }

NoArguments == [roles |-> JsArray(<<>>), description |-> JsUndefined,
                defaultJustification |-> JsUndefined]

\* the file at join(process.cwd(), ".pim-me-mcp.json")
CwdText == IF cwdIsHome THEN homeFile ELSE cwdFile

----------------------------------------------------------------------------
(* Quick-roles config store: loadQuickRolesConfig and saveQuickRolesConfig *)

\* the environment variable decides the result
EnvDecides(e) ==
    /\ e.PIM_QUICK_ROLES.kind \notin {"absent", "empty"}
    /\ Parses(e.PIM_QUICK_ROLES)

FromEnv(e) ==
    LET parsed == e.PIM_QUICK_ROLES.value
    IN IF parsed.t = "array"
       THEN QuickRolesObject(parsed, e.PIM_QUICK_ROLES_DESC, e.PIM_DEFAULT_JUSTIFICATION)
       ELSE parsed

\* the body of the loop over configPaths for one file: it returns a config
FileDecides(text) ==
    /\ text.kind # "absent"
    /\ Parses(text)
    /\ text.value.t \notin {"null", "undefined"}
    /\ JsTruthy(GetProp(text.value, "quickRoles"))

\* the body of the loop over configPaths for one file: it warns
FileWarns(text) ==
    /\ text.kind # "absent"
    /\ ~Parses(text) \/ text.value.t = "null"

\* variant of LoadQuickRolesConfig: an empty config instead of null
LoadQuickRolesConfig_emptyDefault(e, cwdText, homeText) ==
    IF EnvDecides(e) THEN FromEnv(e)
    ELSE IF FileDecides(cwdText) THEN GetProp(cwdText.value, "quickRoles")
    ELSE IF FileDecides(homeText) THEN GetProp(homeText.value, "quickRoles")
    ELSE QuickRolesObject(JsArray(<<>>), JsUndefined, JsUndefined)

\* variant of LoadQuickRolesConfig: the config an activation has used is kept
\* in memory and returned from then on
LoadQuickRolesConfig_cached(e, cwdText, homeText) ==
    IF prior # JsUndefined THEN prior
    ELSE IF EnvDecides(e) THEN FromEnv(e)
    ELSE IF FileDecides(cwdText) THEN GetProp(cwdText.value, "quickRoles")
    ELSE IF FileDecides(homeText) THEN GetProp(homeText.value, "quickRoles")
    ELSE JsNull

\* loadQuickRolesConfig() for the given sources
LoadQuickRolesConfig(e, cwdText, homeText) ==
    IF EnvDecides(e) THEN FromEnv(e)
    ELSE IF FileDecides(cwdText) THEN GetProp(cwdText.value, "quickRoles")
    ELSE IF FileDecides(homeText) THEN GetProp(homeText.value, "quickRoles")
    ELSE JsNull

\* the warnings loadQuickRolesConfig() prints, by the source they are about
LoadWarnings(e, cwdText, homeText) ==
    (IF e.PIM_QUICK_ROLES.kind \notin {"absent", "empty"} /\ ~Parses(e.PIM_QUICK_ROLES)
     THEN <<"env">> ELSE <<>>)
    \o (IF ~EnvDecides(e) /\ FileWarns(cwdText) THEN <<"cwd">> ELSE <<>>)
    \o (IF ~EnvDecides(e) /\ ~FileDecides(cwdText) /\ FileWarns(homeText)
        THEN <<"home">> ELSE <<>>)

\* the local config of saveQuickRolesConfig after the file was read
ExistingConfig(homeText) ==
    IF homeText.kind # "absent" /\ Parses(homeText) THEN homeText.value
    ELSE JsObject(NoProps)

\* variant of UpdatedConfig: the default justification is not stored
UpdatedConfig_noJustification(config, args) ==
    SetProp(config, "quickRoles",
            JsObject([roles |-> args.roles, description |-> args.description]))

\* variant of UpdatedConfig: the config written holds the quickRoles key only
UpdatedConfig_replace(config, args) ==
    SetProp([config EXCEPT !.props = NoProps], "quickRoles",
            QuickRolesObject(args.roles, args.description, args.defaultJustification))

\* variant of UpdatedConfig: a description or default justification that is
\* not passed is taken from the entry the file had
UpdatedConfig_merge(config, args) ==
    LET old == GetProp(config, "quickRoles")
        kept(k, v) == IF v.t = "undefined" /\ old.t = "object" /\ k \in DOMAIN old.props
                      THEN old.props[k] ELSE v
    IN SetProp(config, "quickRoles",
               QuickRolesObject(args.roles, kept("description", args.description),
                                kept("defaultJustification", args.defaultJustification)))

\* config.quickRoles = {roles, description, defaultJustification}
UpdatedConfig(config, args) ==
    SetProp(config, "quickRoles",
            QuickRolesObject(args.roles, args.description, args.defaultJustification))

NoSaveResult == [returned |-> FALSE, success |-> FALSE, error |-> <<>>]

\* {success: true, path}
SaveOk == [returned |-> TRUE, success |-> TRUE, error |-> <<>>]

\* {success: false, path, error: e.message}: the assignment to
\* config.quickRoles threw, or else writeFileSync did
SaveError(config) ==
    [returned |-> TRUE, success |-> FALSE,
     error |-> IF config.t = "null" THEN Str("Cannot set properties of null")
               ELSE IF ~CanSetProp(config) THEN Str("Cannot create property 'quickRoles'")
               ELSE Str("EACCES: permission denied")]

SaveIdle ==
    /\ savePc = "idle"
    /\ saveArgs = NoArguments
    /\ saveConfig = JsObject(NoProps)
    /\ saveResult = NoSaveResult
    /\ fresh = FALSE
    /\ loadResult = JsUndefined
    /\ loadAfter = FALSE

\* saveQuickRolesConfig(roles, description, defaultJustification) is called
\* and reads the existing file
SaveRead ==
    /\ savePc = "idle"
    /\ \E args \in SaveArguments : saveArgs' = args
    /\ saveConfig' = ExistingConfig(homeFile)
    /\ saveResult' = NoSaveResult
    /\ savePc' = "write"
    /\ fresh' = FALSE
    /\ loadResult' = JsUndefined
    /\ loadAfter' = FALSE
    /\ UNCHANGED <<env, cwdFile, homeFile, cwdIsHome>>
    /\ UNCHANGED <<batchVars, toolVars>>

\* variant of SaveWrite: the file is read again in the step that writes it
SaveWrite_reread ==
    /\ savePc = "write"
    /\ \E written \in BOOLEAN :
         IF CanSetProp(ExistingConfig(homeFile)) /\ written
         THEN /\ homeFile' = stringify(UpdatedConfig(ExistingConfig(homeFile), saveArgs))
              /\ saveResult' = SaveOk
              /\ fresh' = TRUE
         ELSE /\ saveResult' = SaveError(ExistingConfig(homeFile))
              /\ fresh' = FALSE
              /\ UNCHANGED homeFile
    /\ savePc' = "idle"
    /\ UNCHANGED <<env, cwdFile, cwdIsHome, saveArgs, saveConfig, loadResult, loadAfter>>
    /\ UNCHANGED <<batchVars, toolVars>>

\* it sets config.quickRoles, writes the file and returns
SaveWrite ==
    /\ savePc = "write"
    /\ \E written \in BOOLEAN :
         IF CanSetProp(saveConfig) /\ written
         THEN /\ homeFile' = stringify(UpdatedConfig(saveConfig, saveArgs))
              /\ saveResult' = SaveOk
              /\ fresh' = TRUE
         ELSE /\ saveResult' = SaveError(saveConfig)
              /\ fresh' = FALSE
              /\ UNCHANGED homeFile
    /\ savePc' = "idle"
    /\ UNCHANGED <<env, cwdFile, cwdIsHome, saveArgs, saveConfig, loadResult, loadAfter>>
    /\ UNCHANGED <<batchVars, toolVars>>

\* loadQuickRolesConfig() is called
Load ==
    /\ savePc = "idle"
    /\ loadResult' = LoadQuickRolesConfig(env, CwdText, homeFile)
    /\ loadAfter' = fresh
    /\ UNCHANGED <<env, cwdFile, homeFile, cwdIsHome, savePc, saveArgs, saveConfig,
                   saveResult, fresh>>
    /\ UNCHANGED <<batchVars, toolVars>>

\* another process writes or removes the home file
ExternalWrite ==
    /\ \E text \in ExternalWrites : homeFile' = text
    /\ homeFile' # homeFile
    /\ fresh' = FALSE
    /\ loadResult' = JsUndefined
    /\ loadAfter' = FALSE
    /\ UNCHANGED <<env, cwdFile, cwdIsHome, savePc, saveArgs, saveConfig, saveResult>>
    /\ UNCHANGED <<batchVars, toolVars>>

----------------------------------------------------------------------------
(* The MCP server: arguments and results of a tool call *)

\* (args?.duration as number) ?? 8
ToolDefaultDuration == 8

\* activateQuickRoles(justification?, durationHours: number = 8)
LibraryDefaultDuration == 8

\* args.justification: missing, empty, or a text
JustificationArgs == { Undefined, <<>>, Str("hot fix") }

\* args.roles of activate_pim_roles: missing, or an array of names
RoleNameArgs == { <<"a">>, <<"c">> }

RolesArgs ==
    { [given |-> FALSE, names |-> <<>>] }
    \cup { [given |-> TRUE, names |-> n] : n \in SeqsUpTo(RoleNameArgs, MaxToolRoles) }

\* args.indices of save_quick_roles: missing, a number, or an array of numbers
IndexValues == { -1, 0, 1, 2 }

IndicesArgs ==
    { JsUndefined, JsNumber(5) }
    \cup { JsArray([k \in 1..Len(q) |-> JsNumber(q[k])]) :
             q \in SeqsUpTo(IndexValues, MaxIndices) }

\* args.description of save_quick_roles
DescriptionArgs == { JsUndefined, JsString(Str("my set")) }

\* request.params: the tool name and every argument a tool reads
NoCall == [name |-> "", justification |-> Undefined, duration |-> NoDuration,
           roles |-> [given |-> FALSE, names |-> <<>>], indices |-> JsUndefined,
           description |-> JsUndefined, defaultJustification |-> JsUndefined]

NoToolResult == [returned |-> FALSE, isError |-> FALSE, threw |-> FALSE, text |-> <<>>]

\* {content: [{type: "text", text}]}
ToolOk(text) == [returned |-> TRUE, isError |-> FALSE, threw |-> FALSE, text |-> text]

\* {content: [{type: "text", text}], isError: true}
ToolError(text) == [returned |-> TRUE, isError |-> TRUE, threw |-> FALSE, text |-> text]

\* the catch block of the handler
CaughtError(name, errorMessage) ==
    ToolError(<<"Error executing tool ", name, ": ">> \o errorMessage)

\* throw new Error(text) out of a library function
Thrown(text) == [returned |-> FALSE, isError |-> FALSE, threw |-> TRUE, text |-> text]

\* the text JSON.stringify(result, null, 2) of the result of the call
ResultJson == Str("JSON.stringify(result, null, 2)")

NoListAnswer == [ok |-> FALSE, json |-> FALSE, value |-> <<>>, error |-> <<>>]

\* the answers to the eligibility listing that a handler itself asks for:
\* those of ListAnswers with no Group entry lacking a schedule id
ToolListAnswers ==
    { a \in ListAnswers :
        \A k \in 1..Len(a.value) : Truthy(a.value[k].roleEligibilityScheduleId) }

ListCall == [cmd |-> "list", ref |-> 0, rec |-> 0, scope |-> <<>>, url |-> <<>>, body |-> <<>>,
             answer |-> NoAnswer, token |-> NoToken]

ActiveCall == [cmd |-> "active", ref |-> 0, rec |-> 0, scope |-> <<>>, url |-> <<>>, body |-> <<>>,
               answer |-> NoAnswer, token |-> NoToken]

RECURSIVE Join(_, _)
Join(q, sep) ==
    IF q = <<>> THEN <<>>
    ELSE IF Len(q) = 1 THEN q[1]
    ELSE q[1] \o sep \o Join(Tail(q), sep)

\* variant of ConfigString: the property is never used
ConfigString_ignored(v) == Undefined

\* a string property of a config, as the text it is used as
ConfigString(v) == IF v.t = "string" THEN v.s ELSE Undefined

\* the roles of a config are an array of {name, scope} with string values
IsRoleArray(v) ==
    /\ v.t = "array"
    /\ \A i \in 1..Len(v.items) :
         /\ v.items[i].t = "object"
         /\ GetProp(v.items[i], "name").t = "string"
         /\ GetProp(v.items[i], "scope").t = "string"

\* such an array as the roles argument of activateRoles
RolesOf(v) ==
    [i \in 1..Len(v.items) |-> [name |-> GetProp(v.items[i], "name").s,
                                scope |-> GetProp(v.items[i], "scope").s]]

\* variant of RoleObjects: every name gets the scope "y"
RoleObjects_scoped(names) == [i \in 1..Len(names) |-> [name |-> names[i], scope |-> <<"y">>]]

\* roles.map(r => ({name: r, scope: ""}))
RoleObjects(names) == [i \in 1..Len(names) |-> [name |-> names[i], scope |-> <<>>]]

\* the numbers of an indices array
IndexNumbers(v) == [k \in 1..Len(v.items) |-> v.items[k].n]

\* variant of InvalidIndices: only the first invalid index is reported
InvalidIndices_firstOnly(ints, length) ==
    LET all == FilterSeq(ints, [k \in 1..Len(ints) |-> ints[k] < 0 \/ ints[k] >= length])
    IN IF all = <<>> THEN <<>> ELSE <<all[1]>>

\* indices.filter(i => i < 0 || i >= listResult.roles.length)
InvalidIndices(ints, length) ==
    FilterSeq(ints, [k \in 1..Len(ints) |-> ints[k] < 0 \/ ints[k] >= length])

InvalidIndicesText(invalid, length) ==
    <<"Error: Invalid indices: ">>
    \o Join([k \in 1..Len(invalid) |-> <<ToString(invalid[k])>>], <<", ">>)
    \o <<". Valid range is 0-", ToString(length - 1), ".">>

\* indices.map(i => ({name: roles[i].roleName, scope: roles[i].scopeName}))
RolesToSave(ints, records) ==
    [k \in 1..Len(ints) |-> [name |-> records[ints[k] + 1].roleName,
                             scope |-> records[ints[k] + 1].scopeName]]

\* the lines "* name (scope)" joined by newlines (<nl>)
RoleLines(refs) ==
    Join([k \in 1..Len(refs) |-> <<"* ">> \o refs[k].name \o <<" (">> \o refs[k].scope \o <<")">>],
         <<"<nl>">>)

\* the lines "index. name - scope (memberType)" joined by newlines
IndexedLines(records) ==
    Join([k \in 1..Len(records) |->
            <<ToString(k - 1), ". ">> \o records[k].roleName \o <<" - ">>
            \o records[k].scopeName \o <<" (">> \o records[k].memberType \o <<")">>],
         <<"<nl>">>)

\* the lines of list_active_roles
ActiveLines(records) ==
    Join([k \in 1..Len(records) |->
            <<"* **">> \o records[k].roleName \o <<"** (">> \o records[k].scopeName
            \o <<")<nl>  Expires: ">>
            \o (IF Truthy(records[k].endDateTime)
                THEN <<"toLocaleString ">> \o records[k].endDateTime
                ELSE Str("Unknown"))],
         <<"<nl><nl>">>)

NotConfiguredText ==
    Str("Error: Quick roles are not configured. Use list_quick_roles and save_quick_roles to configure them, or create ~/.pim-me-mcp.json")

JustificationRequiredText ==
    Str("Error: Justification is required for PIM role activation. Either provide one or set a defaultJustification in your config using save_quick_roles.")

LibraryNotConfiguredText ==
    Str("Quick roles are not configured. Use saveQuickRolesConfig() or create ~/.pim-me-mcp.json")

LibraryJustificationRequiredText ==
    Str("Justification is required. Provide one or set defaultJustification in your config.")

----------------------------------------------------------------------------
(* The MCP server: the handler of a tool call, one action per tool *)

\* no list_quick_roles call has returned a list yet
NothingShown == [listed |-> FALSE, roles |-> <<>>]

\* _eligibleRoles and the role list in the text of a list_quick_roles result
Shown(records) == [listed |-> TRUE, roles |-> records]

ToolIdle ==
    /\ tool = NoCall
    /\ toolPc = "idle"
    /\ toolResult = NoToolResult
    /\ azList = NoListAnswer
    /\ toolList = NoList
    /\ azActive = NoListAnswer
    /\ toolActive = NoList
    /\ shown = NothingShown
    /\ prior = JsUndefined
    /\ served = 0
    /\ untypedRoles = NoUntypedRoles

\* the server waits for a request
Ready == toolPc = "idle" /\ tool = NoCall /\ savePc = "idle"

\* the state of activatePimRolesCli when a call runs no batch, or before it does
NoBatch(commands) ==
    /\ pc' = "idle"
    /\ roles' = <<>>
    /\ justification' = <<>>
    /\ durationHours' = DefaultDurationHours
    /\ durationArg' = NoDuration
    /\ userPrincipalId' = Undefined
    /\ listResult' = NoList
    /\ idx' = 1
    /\ activatedRoles' = <<>>
    /\ failedRoles' = <<>>
    /\ result' = NoResult
    /\ calls' = commands
    /\ matchLog' = <<>>
    /\ untypedRoles' = NoUntypedRoles

\* activateRoles(rs, j, duration) is called
BeginBatch(rs, j, d, default) ==
    /\ untypedRoles' = NoUntypedRoles
    /\ roles' = rs
    /\ justification' = j
    /\ durationHours' = IF d.given THEN d.hours ELSE default
    /\ durationArg' = d
    /\ pc' = "token"
    /\ userPrincipalId' = Undefined
    /\ listResult' = NoList
    /\ idx' = 1
    /\ activatedRoles' = <<>>
    /\ failedRoles' = <<>>
    /\ result' = NoResult
    /\ calls' = <<>>
    /\ matchLog' = <<>>

\* a value on which roles.filter, roles.map and for-of all throw: not an
\* array, or an array whose first element is null
NeverARoleList(v) ==
    \/ v.t \in {"undefined", "null", "number", "object"}
    \/ v.t = "array" /\ Len(v.items) > 0 /\ v.items[1].t = "null"

\* activateRoles(v, j, duration) is called with the roles value of a config
BeginWith(v, j, d, default) ==
    /\ IsRoleArray(v) \/ NeverARoleList(v)
    /\ IF IsRoleArray(v)
       THEN BeginBatch(RolesOf(v), j, d, default)
       ELSE /\ untypedRoles' = v
            /\ roles' = <<>>
            /\ justification' = j
            /\ durationHours' = IF d.given THEN d.hours ELSE default
            /\ durationArg' = d
            /\ pc' = "token"
            /\ userPrincipalId' = Undefined
            /\ listResult' = NoList
            /\ idx' = 1
            /\ activatedRoles' = <<>>
            /\ failedRoles' = <<>>
            /\ result' = NoResult
            /\ calls' = <<>>
            /\ matchLog' = <<>>

\* the call saves nothing
NoSave ==
    UNCHANGED <<env, cwdFile, homeFile, cwdIsHome, savePc, saveArgs, saveConfig,
                saveResult, fresh>>

\* the call loads no config
NoLoad == loadResult' = JsUndefined /\ loadAfter' = FALSE

\* the call runs loadQuickRolesConfig()
Loads == loadResult' = LoadQuickRolesConfig(env, CwdText, homeFile) /\ loadAfter' = fresh

\* the call runs neither lister
NoListing ==
    /\ azList' = NoListAnswer
    /\ toolList' = NoList
    /\ azActive' = NoListAnswer
    /\ toolActive' = NoList

\* the call runs listEligibleRoles() and the command answers a
ListsEligible(a) ==
    /\ azList' = a
    /\ toolList' = ListEligible(a)
    /\ azActive' = NoListAnswer
    /\ toolActive' = NoList

\* default: a tool name the switch does not know
CallUnknown ==
    /\ Ready
    /\ UNCHANGED <<shown, prior, served>>
    /\ tool' = [NoCall EXCEPT !.name = "restart_server"]
    /\ toolResult' = ToolError(<<"Unknown tool: ", "restart_server">>)
    /\ toolPc' = "idle"
    /\ NoBatch(<<>>)
    /\ NoSave
    /\ NoLoad
    /\ NoListing

\* case "list_eligible_roles"
CallListEligible ==
    /\ Ready
    /\ UNCHANGED <<shown, prior, served>>
    /\ tool' = [NoCall EXCEPT !.name = "list_eligible_roles"]
    /\ \E a \in ToolListAnswers : ListsEligible(a)
    /\ toolResult' = ToolOk(ResultJson)
    /\ toolPc' = "idle"
    /\ NoBatch(<<ListCall>>)
    /\ NoSave
    /\ NoLoad

\* case "list_active_roles"
CallListActive ==
    /\ Ready
    /\ UNCHANGED <<shown, prior, served>>
    /\ tool' = [NoCall EXCEPT !.name = "list_active_roles"]
    /\ \E a \in ActiveAnswers :
         LET lr == ListActive(a)
         IN /\ azActive' = a
            /\ toolActive' = lr
            /\ toolResult' =
                 IF ~lr.success THEN ToolError(<<"Error: ">> \o lr.message)
                 ELSE IF Len(lr.roles) = 0
                 THEN ToolOk(Str("No active role elevations found. Use activate_quick_roles or activate_pim_roles to elevate."))
                 ELSE ToolOk(<<"**Active Role Elevations (", ToString(Len(lr.roles)), "):**<nl><nl>">>
                             \o ActiveLines(lr.roles))
    /\ azList' = NoListAnswer
    /\ toolList' = NoList
    /\ toolPc' = "idle"
    /\ NoBatch(<<ActiveCall>>)
    /\ NoSave
    /\ NoLoad

\* case "list_quick_roles"
CallListQuickRoles ==
    /\ Ready
    /\ UNCHANGED <<prior, served>>
    /\ tool' = [NoCall EXCEPT !.name = "list_quick_roles"]
    /\ \E a \in ToolListAnswers :
         LET lr == ListEligible(a)
             currentQuickRoles == LoadQuickRolesConfig(env, CwdText, homeFile)
         IN /\ ListsEligible(a)
            /\ IF ~lr.success
               THEN /\ toolResult' = ToolError(<<"Error fetching roles: ">> \o lr.message)
                    /\ NoLoad
                    /\ UNCHANGED shown
               ELSE /\ Loads
                    /\ shown' = IF JsTruthy(currentQuickRoles)
                                    /\ ~IsRoleArray(GetProp(currentQuickRoles, "roles"))
                                 THEN shown
                                 ELSE Shown(lr.roles)
                    /\ toolResult' =
                         IF ~JsTruthy(currentQuickRoles)
                         THEN ToolOk(<<"===== ELIGIBLE PIM ROLES =====<nl>">>
                                     \o IndexedLines(lr.roles))
                         ELSE IF IsRoleArray(GetProp(currentQuickRoles, "roles"))
                         THEN ToolOk(<<"===== ELIGIBLE PIM ROLES =====<nl>">>
                                     \o IndexedLines(lr.roles)
                                     \o <<"<nl><nl>**Currently configured quick roles:**<nl>">>
                                     \o RoleLines(RolesOf(GetProp(currentQuickRoles, "roles"))))
                         ELSE CaughtError("list_quick_roles", Str("TypeError"))
    /\ toolPc' = "idle"
    /\ NoBatch(<<ListCall>>)
    /\ NoSave

\* case "save_quick_roles", saveQuickRolesConfig included
CallSaveQuickRoles ==
    /\ Ready
    /\ UNCHANGED <<shown, prior, served>>
    /\ \E indices \in IndicesArgs, d \in DescriptionArgs, j \in OptionalTexts :
         /\ tool' = [NoCall EXCEPT !.name = "save_quick_roles", !.indices = indices,
                                   !.description = d, !.defaultJustification = j]
         /\ IF ~JsTruthy(indices) \/ (indices.t = "array" /\ Len(indices.items) = 0)
            THEN /\ toolResult' = ToolError(Str("Error: No role indices provided. Please specify which roles to save using their index numbers from list_quick_roles."))
                 /\ NoBatch(<<>>)
                 /\ NoListing
                 /\ NoSave
            ELSE \E a \in ToolListAnswers :
                   LET lr == ListEligible(a)
                       ints == IndexNumbers(indices)
                       invalid == InvalidIndices(ints, Len(lr.roles))
                       args == [roles |-> JsRoles(RolesToSave(ints, lr.roles)),
                                description |-> d,
                                defaultJustification |-> j]
                       config == ExistingConfig(homeFile)
                   IN /\ ListsEligible(a)
                      /\ NoBatch(<<ListCall>>)
                      /\ IF ~lr.success
                         THEN /\ toolResult' = ToolError(<<"Error fetching roles: ">> \o lr.message)
                              /\ NoSave
                         ELSE IF indices.t # "array"
                         THEN /\ toolResult' = CaughtError("save_quick_roles",
                                                  Str("indices.filter is not a function"))
                              /\ NoSave
                         ELSE IF Len(invalid) > 0
                         THEN /\ toolResult' = ToolError(InvalidIndicesText(invalid, Len(lr.roles)))
                              /\ NoSave
                         ELSE /\ saveArgs' = args
                              /\ saveConfig' = config
                              /\ UNCHANGED <<env, cwdFile, cwdIsHome, savePc>>
                              /\ \E written \in BOOLEAN :
                                   IF CanSetProp(config) /\ written
                                   THEN /\ homeFile' = stringify(UpdatedConfig(config, args))
                                        /\ saveResult' = SaveOk
                                        /\ fresh' = TRUE
                                        /\ toolResult' =
                                             ToolOk(<<"**Quick roles saved successfully!**<nl>">>
                                                    \o RoleLines(RolesToSave(ints, lr.roles))
                                                    \o (IF JsTruthy(j)
                                                        THEN <<"<nl>**Default justification:** ">> \o j.s
                                                        ELSE <<"<nl>**Tip:**">>))
                                   ELSE /\ UNCHANGED homeFile
                                        /\ saveResult' = SaveError(config)
                                        /\ fresh' = FALSE
                                        /\ toolResult' = ToolError(<<"Error saving config: ">>
                                                                     \o SaveError(config).error)
    /\ toolPc' = "idle"
    /\ NoLoad

\* case "activate_quick_roles" up to the call of activateRoles
CallActivateQuickRoles ==
    /\ Ready
    /\ UNCHANGED <<shown, prior, served>>
    /\ \E a \in JustificationArgs, d \in DurationArgs :
         LET currentConfig == LoadQuickRolesConfig(env, CwdText, homeFile)
             j == OrElse(a, ConfigString(GetProp(currentConfig, "defaultJustification")))
         IN /\ tool' = [NoCall EXCEPT !.name = "activate_quick_roles",
                                      !.justification = a, !.duration = d]
            /\ IF ~JsTruthy(currentConfig)
               THEN /\ toolResult' = ToolError(NotConfiguredText)
                    /\ toolPc' = "idle"
                    /\ NoBatch(<<>>)
               ELSE IF ~Truthy(j)
               THEN /\ toolResult' = ToolError(JustificationRequiredText)
                    /\ toolPc' = "idle"
                    /\ NoBatch(<<>>)
               ELSE /\ toolResult' = NoToolResult
                    /\ toolPc' = "batch"
                    /\ BeginWith(GetProp(currentConfig, "roles"), j, d, ToolDefaultDuration)
    /\ Loads
    /\ NoListing
    /\ NoSave

\* case "activate_pim_roles" up to the call of activateRoles
CallActivatePimRoles ==
    /\ Ready
    /\ UNCHANGED <<shown, prior, served>>
    /\ \E r \in RolesArgs, j \in JustificationArgs, d \in DurationArgs :
         /\ tool' = [NoCall EXCEPT !.name = "activate_pim_roles", !.roles = r,
                                   !.justification = j, !.duration = d]
         /\ IF ~r.given \/ Len(r.names) = 0
            THEN /\ toolResult' = ToolError(Str("Error: No roles specified for activation."))
                 /\ toolPc' = "idle"
                 /\ NoBatch(<<>>)
            ELSE IF ~Truthy(j)
            THEN /\ toolResult' = ToolError(Str("Error: Justification is required for PIM role activation."))
                 /\ toolPc' = "idle"
                 /\ NoBatch(<<>>)
            ELSE /\ toolResult' = NoToolResult
                 /\ toolPc' = "batch"
                 /\ BeginBatch(RoleObjects(r.names), j, d, ToolDefaultDuration)
    /\ NoLoad
    /\ NoListing
    /\ NoSave

\* the library's activateQuickRoles(justification, durationHours) up to the
\* call of activateRoles
CallLibraryActivateQuickRoles ==
    /\ Ready
    /\ UNCHANGED <<shown, prior, served>>
    /\ \E a \in JustificationArgs, d \in DurationArgs :
         LET config == LoadQuickRolesConfig(env, CwdText, homeFile)
             finalJustification ==
                 OrElse(a, ConfigString(GetProp(config, "defaultJustification")))
         IN /\ tool' = [NoCall EXCEPT !.name = "activateQuickRoles",
                                      !.justification = a, !.duration = d]
            /\ IF ~JsTruthy(config)
               THEN /\ toolResult' = Thrown(LibraryNotConfiguredText)
                    /\ toolPc' = "idle"
                    /\ NoBatch(<<>>)
               ELSE IF ~Truthy(finalJustification)
               THEN /\ toolResult' = Thrown(LibraryJustificationRequiredText)
                    /\ toolPc' = "idle"
                    /\ NoBatch(<<>>)
               ELSE /\ toolResult' = NoToolResult
                    /\ toolPc' = "batch"
                    /\ BeginWith(GetProp(config, "roles"), finalJustification, d,
                                 LibraryDefaultDuration)
    /\ Loads
    /\ NoListing
    /\ NoSave

\* activateRoles has returned: the handler returns the result as JSON text
\* (activateQuickRoles returns the result itself)
FinishActivation ==
    /\ toolPc = "batch"
    /\ pc = "done"
    /\ toolResult' = IF ~result.threw THEN ToolOk(ResultJson)
                     ELSE IF tool.name = "activateQuickRoles" THEN Thrown(result.message)
                     ELSE CaughtError(tool.name, result.message)
    /\ toolPc' = "idle"
    /\ UNCHANGED <<tool, azList, toolList, azActive, toolActive, shown, prior, served,
                   untypedRoles>>
    /\ UNCHANGED <<batchVars, configVars>>

\* the result has gone to the client; the server waits for the next request
AwaitRequest ==
    /\ toolPc = "idle"
    /\ tool # NoCall
    /\ savePc = "idle"
    /\ served + 1 < MaxRequests
    /\ served' = served + 1
    /\ tool' = NoCall
    /\ toolResult' = NoToolResult
    /\ prior' = IF tool.name = "activate_quick_roles" THEN loadResult ELSE prior
    /\ NoListing
    /\ NoBatch(<<>>)
    /\ NoLoad
    /\ NoSave
    /\ UNCHANGED <<toolPc, shown>>

\* a quickRoles entry as a user writes it into a config file
EditedConfig ==
    Serialized(QuickRolesObject(JsRoles(<<[name |-> <<"a">>, scope |-> <<"y">>]>>),
                                JsUndefined, JsString(Str("edit work"))))

\* the user edits the home config file after a request was answered and
\* before the next one arrives
EditConfig ==
    /\ toolPc = "idle"
    /\ tool = NoCall
    /\ served > 0
    /\ homeFile # JsonText(JsObject([quickRoles |-> EditedConfig]))
    /\ homeFile' = JsonText(JsObject([quickRoles |-> EditedConfig]))
    /\ fresh' = FALSE
    /\ UNCHANGED <<env, cwdFile, cwdIsHome, savePc, saveArgs, saveConfig, saveResult,
                   loadResult, loadAfter>>
    /\ UNCHANGED <<batchVars, toolVars>>

----------------------------------------------------------------------------
(* Specification of a batch activation *)

BatchIdle ==
    /\ pc = "idle"
    /\ roles = <<>>
    /\ justification = <<>>
    /\ durationHours = DefaultDurationHours
    /\ durationArg = NoDuration
    /\ userPrincipalId = Undefined
    /\ listResult = NoList
    /\ idx = 1
    /\ activatedRoles = <<>>
    /\ failedRoles = <<>>
    /\ result = NoResult
    /\ calls = <<>>
    /\ matchLog = <<>>

ConfigIdle ==
    /\ env = [PIM_QUICK_ROLES |-> Absent, PIM_QUICK_ROLES_DESC |-> JsUndefined,
              PIM_DEFAULT_JUSTIFICATION |-> JsUndefined]
    /\ cwdFile = Absent
    /\ homeFile = Absent
    /\ cwdIsHome = FALSE
    /\ savePc = "idle"
    /\ SaveIdle

InitBatch == BatchIdle /\ ConfigIdle /\ ToolIdle

NextBatch ==
    \/ Start
    \/ ResolveIdentity
    \/ FetchEligible
    \/ NoMatch
    \/ Activate
    \/ Return

SpecBatch == InitBatch /\ [][NextBatch]_vars

----------------------------------------------------------------------------
(* Properties of a batch activation *)

Puts == {i \in 1..Len(calls) : calls[i].cmd = "put"}

\* the record a submission was made for
RecordOf(c) == listResult.roles[c.rec]

\* how many of the first k processed references went to the given list
CountTo(k, list) == Cardinality({j \in 1..k : matchLog[j].to = list})

IdentityFailed == result.returned /\ userPrincipalId = Undefined
ListingFailed == result.returned /\ userPrincipalId # Undefined /\ ~listResult.success
CompletedNormally == result.returned /\ userPrincipalId # Undefined /\ listResult.success

ActivatedSet == {result.activatedRoles[i] : i \in 1..Len(result.activatedRoles)}
FailedSet == {result.failedRoles[i].role : i \in 1..Len(result.failedRoles)}
RequestedSet == {RoleIdentifier(roles[i]) : i \in 1..Len(roles)}

\* C1: every submitted activation request carries as principalId the oid
\* resolved from the access token of this run, and so never the matched
\* record's own principalId when the two differ.
C1_PrincipalIsCaller ==
    \A i \in Puts :
        /\ calls[1].cmd = "token"
        /\ calls[i].body["principalId"] = calls[1].token.oid
        /\ RecordOf(calls[i]).principalId # calls[1].token.oid
             => calls[i].body["principalId"] # RecordOf(calls[i]).principalId

C1_Witness ==
    \E i \in Puts :
        /\ RecordOf(calls[i]).memberType = Str("Group")
        /\ RecordOf(calls[i]).principalId # calls[1].token.oid

C3_DirectNotLinked ==
    \A i \in Puts :
        RecordOf(calls[i]).memberType # Str("Group")
        => "linkedRoleEligibilityScheduleId" \notin DOMAIN calls[i].body

C3_Witness ==
    \E i \in Puts :
        /\ RecordOf(calls[i]).memberType = Str("Direct")
        /\ Truthy(RecordOf(calls[i]).roleEligibilityScheduleId)

\* the records of which the reference's name and scope are substrings
\* (of the role name and of the raw scope, letter case aside)
ExactHits(records, role) ==
    {i \in 1..Len(records) :
        /\ includes(toLowerCase(records[i].roleName), toLowerCase(role.name))
        /\ includes(toLowerCase(records[i].scope), toLowerCase(role.scope))}

\* the submission for reference k is made for record i and no other
SubmittedFor(k, i) ==
    /\ \E c \in Puts :
          /\ calls[c].ref = k
          /\ calls[c].rec = i
          /\ calls[c].scope = listResult.roles[i].scope
          /\ calls[c].body["roleDefinitionId"] = listResult.roles[i].roleDefinitionId
    /\ \A c \in Puts : calls[c].ref = k => calls[c].rec = i

NoRecordMatches(k) ==
    \A i \in 1..Len(listResult.roles) : ~Matches(listResult.roles[i], roles[k])

\* C5: a reference that matches no eligible record is added to failedRoles
\* with a 'Could not find eligible role' error, adds nothing to
\* activatedRoles, causes no submission, and every later reference of the
\* batch is still matched and, if it matches, submitted.
C5_NoMatchRecordedAndBatchContinues ==
    /\ Len(activatedRoles) = CountTo(Len(matchLog), "activated")
    /\ Len(failedRoles) = CountTo(Len(matchLog), "failed")
    /\ \A k \in 1..Len(matchLog) :
         NoRecordMatches(k)
         => /\ matchLog[k].to = "failed"
            /\ failedRoles[CountTo(k, "failed")].role = RoleIdentifier(roles[k])
            /\ failedRoles[CountTo(k, "failed")].error[1]
                 = "Could not find eligible role matching \""
            /\ \A c \in Puts : calls[c].ref # k
    /\ CompletedNormally
         => /\ Len(matchLog) = Len(roles)
            /\ \A k \in 1..Len(roles) :
                 ~NoRecordMatches(k) => \E c \in Puts : calls[c].ref = k

C5_Witness ==
    /\ CompletedNormally
    /\ Len(roles) = 2
    /\ NoRecordMatches(1)
    /\ \E c \in Puts : calls[c].ref = 2

\* the transport error of a submission says that the assignment exists
SaysExists(a) ==
    /\ ~a.ok
    /\ \/ includes(a.error, <<"RoleAssignmentExists">>)
       \/ includes(a.error, <<"already exists">>)

\* C6: when the submission fails with an error message containing
\* "RoleAssignmentExists" or "already exists", the submitter returns
\* {success: true, message: "Role is already activated"} and the batch puts
\* the reference in activatedRoles, not in failedRoles.
C6_AlreadyActiveIsSuccess ==
    \A c \in Puts :
        SaysExists(calls[c].answer)
        => /\ ActivationResult(calls[c].answer)
                = [success |-> TRUE, message |-> <<"Role is already activated">>]
           /\ matchLog[calls[c].ref].to = "activated"
           /\ Len(activatedRoles) = CountTo(Len(matchLog), "activated")
           /\ Len(failedRoles) = CountTo(Len(matchLog), "failed")
           /\ activatedRoles[CountTo(calls[c].ref, "activated")]
                = RoleIdentifier(roles[calls[c].ref])

C6_Witness ==
    \E c \in Puts :
        /\ includes(calls[c].answer.error, <<"already exists">>)
        /\ result.returned
        /\ result.activatedRoles = <<RoleIdentifier(roles[calls[c].ref])>>
        /\ result.failedRoles = <<>>

\* the requested references have pairwise distinct identifiers
DistinctRequests ==
    \A i, j \in 1..Len(roles) :
        RoleIdentifier(roles[i]) = RoleIdentifier(roles[j]) => i = j

\* every requested identifier is reported, and there is one entry per
\* requested reference
EveryRequestReported ==
    /\ RequestedSet = ActivatedSet \cup FailedSet
    /\ Len(result.activatedRoles) + Len(result.failedRoles) = Len(roles)

\* C7 (as claimed): in every result, activatedRoles and failedRoles partition
\* the requested references: every requested identifier is in one of them,
\* none is in both, and together they hold one entry per requested
\* reference, also when a reference is requested more than once.
C7_Partition ==
    result.returned
    => /\ EveryRequestReported
       /\ ActivatedSet \cap FailedSet = {}

\* C7 (amended): in every result every requested identifier is in
\* activatedRoles or failedRoles and the two lists together hold one entry per
\* requested reference; no identifier is in both lists when the requested
\* references are pairwise distinct, and an identifier that is in both was
\* requested more than once.
C7_PartitionOfDistinct ==
    result.returned
    => /\ EveryRequestReported
       /\ DistinctRequests => ActivatedSet \cap FailedSet = {}
       /\ \A id \in ActivatedSet \cap FailedSet :
              Cardinality({i \in 1..Len(roles) : RoleIdentifier(roles[i]) = id}) > 1

C7_Witness ==
    /\ result.returned
    /\ DistinctRequests
    /\ Len(result.activatedRoles) = 1
    /\ Len(result.failedRoles) = 1

\* C8 (as claimed): in every result, on every path and for every requested
\* list, success is true if and only if failedRoles is empty.
C8_SuccessIffNoFailure ==
    result.returned => (result.success <=> result.failedRoles = <<>>)

\* C8 (amended): success is true if and only if failedRoles is empty in every
\* result of a run that completes normally and in every result for a
\* non-empty requested list; a run for the empty list whose identity
\* resolution or listing fails returns success false with failedRoles empty.
C8_SuccessIffNoFailureUnlessEmptyFailure ==
    result.returned
    => IF CompletedNormally \/ roles # <<>>
       THEN result.success <=> result.failedRoles = <<>>
       ELSE ~result.success /\ result.failedRoles = <<>>

C8_Witness ==
    /\ CompletedNormally
    /\ Len(result.activatedRoles) = 1
    /\ Len(result.failedRoles) = 1
    /\ ~result.success

\* every requested reference is in failedRoles, in order, with this error
AllFailedWith(error) ==
    /\ Len(result.failedRoles) = Len(roles)
    /\ \A k \in 1..Len(roles) :
         result.failedRoles[k] = [role |-> RoleIdentifier(roles[k]), error |-> error]

\* C9: when identity resolution fails, or the eligible-role listing fails,
\* every requested reference is in failedRoles with the one shared error,
\* activatedRoles is empty, and no further external call is made: no listing
\* after a failed identity resolution, no submission in either case.
C9_EarlyFailureFailsAll ==
    /\ IdentityFailed
         => /\ AllFailedWith(IdentityOf(calls[1].token).error)
            /\ result.message
                 = <<"Error during PIM activation: ">> \o IdentityOf(calls[1].token).error
            /\ result.activatedRoles = <<>>
            /\ ~result.success
            /\ Len(calls) = 1 /\ calls[1].cmd = "token"
    /\ ListingFailed
         => /\ AllFailedWith(listResult.message)
            /\ result.message = listResult.message
            /\ result.activatedRoles = <<>>
            /\ ~result.success
            /\ Len(calls) = 2 /\ calls[1].cmd = "token" /\ calls[2].cmd = "list"

C9_Witness ==
    /\ IdentityFailed
    /\ Len(roles) = 2
    /\ roles[1] # roles[2]

C9_ListingCase ==
    /\ ListingFailed
    /\ Len(roles) = 2
    /\ roles[1] # roles[2]

\* the hours the caller asked for, 8 when the caller gave no duration
RequestedHours == IF durationArg.given THEN durationArg.hours ELSE 8

\* the url is a path under the scope on management.azure.com
UnderScope(url, scope) ==
    /\ Len(url) >= Len(scope) + 2
    /\ SubSeq(url, 1, Len(scope) + 2)
         = <<"https://management.azure.com">> \o scope
           \o <<"/providers/Microsoft.Authorization/roleAssignmentScheduleRequests/">>

\* C19: every submitted activation request body has requestType
\* "SelfActivate", the roleDefinitionId of the matched record, the
\* justification of the batch, and an expiration of type "AfterDuration"
\* with duration "PT<h>H", h being the requested number of hours and 8 when
\* the caller gave none; the request is a PUT to a path under the raw scope
\* of the matched record.
C19_RequestBodyFields ==
    \A c \in Puts :
      LET b == calls[c].body
      IN /\ b["requestType"] = Str("SelfActivate")
         /\ b["roleDefinitionId"] = RecordOf(calls[c]).roleDefinitionId
         /\ b["justification"] = justification
         /\ b["expirationType"] = Str("AfterDuration")
         /\ b["expirationDuration"] = <<"PT", ToString(RequestedHours), "H">>
         /\ UnderScope(calls[c].url, RecordOf(calls[c]).scope)

C19_Witness ==
    /\ ~durationArg.given
    /\ \E c \in Puts :
         /\ calls[c].body["expirationDuration"] = <<"PT", "8", "H">>
         /\ calls[c].body["roleDefinitionId"] = Str("rd3")
         /\ RecordOf(calls[c]).scope = <<"/", "x", "/", "y">>
         /\ UnderScope(calls[c].url, <<"/", "x", "/", "y">>)

\* a request for a duration the caller gave
C19_GivenCase ==
    /\ durationArg.given
    /\ \E c \in Puts : calls[c].body["expirationDuration"] = <<"PT", "1", "H">>

\* the positions in the call log of the calls of one command
CallsOf(cmd) == {i \in 1..Len(calls) : calls[i].cmd = cmd}

\* the submissions made for reference k
PutsFor(k) == {c \in Puts : calls[c].ref = k}

\* the submissions are made in the order of the references, one at most each
SubmissionsInOrder ==
    /\ \A c \in Puts : c > 2 /\ calls[c].ref \in 1..Len(roles)
    /\ \A c, d \in Puts : c < d => calls[c].ref < calls[d].ref

\* exactly one submission for a reference that matched, none for another
OnePerMatch ==
    \A k \in 1..Len(roles) :
        Cardinality(PutsFor(k)) = IF NoRecordMatches(k) THEN 0 ELSE 1

\* the step issues one call, after everything issued before it has returned:
\* the log grows by that call only, and a submission for reference k is
\* issued when the outcomes of the k - 1 references before it are recorded
IssuesOneCall ==
    /\ Len(calls') = Len(calls) + 1
    /\ SubSeq(calls', 1, Len(calls)) = calls
    /\ LET new == calls'[Len(calls')]
       IN new.cmd = "put" =>
            /\ pc = "loop"
            /\ Len(matchLog) = new.ref - 1
            /\ \A k \in 1..(new.ref - 1) :
                  matchLog[k].rec # 0 => \E c \in 1..Len(calls) :
                                            calls[c].cmd = "put" /\ calls[c].ref = k

\* C21 (as claimed): every run issues exactly one identity call, then
\* exactly one listing call, then for each reference in input order exactly
\* one submission if it matched and none otherwise.
C21_TokenListingSubmissions ==
    result.returned =>
      /\ Len(calls) >= 2
      /\ CallsOf("token") = {1}
      /\ CallsOf("list") = {2}
      /\ SubmissionsInOrder
      /\ OnePerMatch

\* C21 (amended): a run issues its calls one at a time, each after the one
\* before it has returned, and repeats none: one identity call; when the
\* identity was resolved, one listing call, and no call at all after a failed
\* identity call; when the listing succeeded, for each reference in input
\* order one submission if it matched and none otherwise.
C21_SequenceUnlessIdentityFails ==
    [][/\ calls' # calls => IssuesOneCall
       /\ CallsOf("token")' = (IF calls' = <<>> THEN {} ELSE {1})
       /\ CallsOf("list")' = (IF Len(calls') >= 2 THEN {2} ELSE {})
       /\ Len(calls') >= 2 => userPrincipalId' # Undefined
       /\ SubmissionsInOrder'
       /\ Puts' # {} => listResult'.success
       /\ IdentityFailed' => Len(calls') = 1
       /\ ListingFailed' => Len(calls') = 2
       /\ CompletedNormally' => OnePerMatch']_vars

C21_Witness ==
    /\ CompletedNormally
    /\ Len(roles) = 2
    /\ Len(calls) = 4
    /\ calls[3].ref = 1 /\ ~ActivationResult(calls[3].answer).success
    /\ calls[4].ref = 2

\* a run that ends after its identity call
C21_IdentityFailureCase ==
    /\ IdentityFailed
    /\ Len(calls) = 1
    /\ roles # <<>>

----------------------------------------------------------------------------
(* Specification of the quick-roles config store *)

InitConfig ==
    /\ BatchIdle
    /\ ToolIdle
    /\ SaveIdle
    /\ env \in Environments
    /\ homeFile \in HomeFiles
    /\ cwdIsHome \in BOOLEAN
    /\ cwdFile \in IF cwdIsHome THEN {Absent} ELSE CwdFiles

NextConfig ==
    \/ SaveRead
    \/ SaveWrite
    \/ Load
    \/ ExternalWrite

SpecConfig == InitConfig /\ [][NextConfig]_vars

----------------------------------------------------------------------------
(* Properties of the quick-roles config store *)

\* the loaded config is deep-equal to the saved arguments
RoundTrip(loaded, args) ==
    /\ loaded.t = "object"
    /\ GetProp(loaded, "roles") = args.roles
    /\ GetProp(loaded, "description") = args.description
    /\ GetProp(loaded, "defaultJustification") = args.defaultJustification

\* a source that loadQuickRolesConfig reads before the home file has a config
HigherSourcePopulated == EnvDecides(env) \/ (~cwdIsHome /\ FileDecides(cwdFile))

\* C10 (as claimed): after a successful save, the next load returns a config
\* deep-equal to what was saved, whatever the environment variable and the
\* two config files held at the time of the save.
C10_RoundTripAlways ==
    loadAfter => RoundTrip(loadResult, saveArgs)

\* C10 (amended): after a successful save, the next load returns a config
\* deep-equal to what was saved when no source of higher precedence is
\* populated (PIM_QUICK_ROLES is unset, empty or not valid JSON, and no
\* config file with a quickRoles entry is in a current directory other than
\* the home directory) and the home file, when the save read it, was absent,
\* unparseable or held a JSON object.
C10_RoundTripWhenHomeDecides ==
    /\ loadAfter
    /\ ~HigherSourcePopulated
    /\ saveConfig.t = "object"
    => RoundTrip(loadResult, saveArgs)

C10_Witness ==
    /\ loadAfter
    /\ ~HigherSourcePopulated
    /\ saveConfig = JsObject([theme |-> JsNumber(1), quickRoles |-> StoredConfig])
    /\ saveArgs.description = JsUndefined
    /\ saveArgs.defaultJustification = JsString(Str("daily work"))
    /\ Len(saveArgs.roles.items) = 1
    /\ RoundTrip(loadResult, saveArgs)

\* top-level keys of a parsed document other than quickRoles
OtherKeys(doc) ==
    IF doc.t \in {"object", "array"} THEN (DOMAIN doc.props) \ {"quickRoles"} ELSE {}

\* the step in which saveQuickRolesConfig writes and returns success
SaveSucceeds == savePc = "write" /\ savePc' = "idle" /\ saveResult'.success

\* C11: a successful save changes only the quickRoles key of the home config
\* document: every other top-level key that the file held when the save read
\* it is present with the same value afterwards (and so are the elements of a
\* document that is an array); the step changes the home file only, never
\* the config file of a current directory other than the home directory, and
\* never the environment.
C11_SaveChangesOnlyQuickRoles ==
    [][SaveSucceeds =>
         /\ Parses(homeFile')
         /\ homeFile'.value.t = saveConfig.t
         /\ OtherKeys(homeFile'.value) = OtherKeys(saveConfig)
         /\ \A k \in OtherKeys(saveConfig) :
               homeFile'.value.props[k] = saveConfig.props[k]
         /\ saveConfig.t = "array" => homeFile'.value.items = saveConfig.items
         /\ cwdFile' = cwdFile
         /\ env' = env]_vars

C11_Witness ==
    /\ fresh
    /\ saveResult.success
    /\ saveConfig = JsObject([theme |-> JsNumber(1), quickRoles |-> StoredConfig])
    /\ ~cwdIsHome
    /\ cwdFile = JsonText(JsObject([quickRoles |-> StoredConfig]))
    /\ GetProp(homeFile.value, "theme") = JsNumber(1)
    /\ GetProp(homeFile.value, "quickRoles") # StoredConfig

\* the home file holds the quickRoles entry that the last save was given
SavedReadBack ==
    /\ Parses(homeFile)
    /\ GetProp(homeFile.value, "quickRoles")
         = Serialized(QuickRolesObject(saveArgs.roles, saveArgs.description,
                                       saveArgs.defaultJustification))

\* the save failed and its error is not one of writing the file
FailedOnContent ==
    /\ saveResult.returned
    /\ ~saveResult.success
    /\ saveResult.error # Str("EACCES: permission denied")

\* C22 (as claimed): a save never fails because of what the home config file
\* holds (absent, not parseable, or JSON of any shape): it fails only when
\* the file cannot be written, and after a successful save the file holds the
\* saved quickRoles entry.
C22_SaveWhateverTheFileHolds ==
    /\ ~FailedOnContent
    /\ fresh /\ saveResult.success => SavedReadBack

\* the claim holds of every save that found the home file absent,
\* unparseable or holding a JSON object
C22_WhenAbsentCorruptOrObject ==
    saveResult.returned /\ saveConfig.t = "object" =>
      /\ ~FailedOnContent
      /\ fresh /\ saveResult.success => SavedReadBack

\* the home file holds the text null and the save fails with a TypeError
C22_NullFileFailsSave ==
    /\ homeFile = JsonText(JsNull)
    /\ FailedOnContent
    /\ saveResult.error = Str("Cannot set properties of null")

\* the home file held a JSON array, the save returns success and the file
\* written has no quickRoles entry
C22_ArrayFileLosesSave ==
    /\ fresh
    /\ saveResult.success
    /\ saveConfig.t = "array"
    /\ GetProp(homeFile.value, "quickRoles") = JsUndefined

\* an unparseable file is replaced by a document holding the entry only
C22_CorruptFileCase ==
    /\ fresh
    /\ saveResult.success
    /\ saveConfig = JsObject(NoProps)
    /\ SavedReadBack
    /\ DOMAIN homeFile.value.props = {"quickRoles"}

\* the top-level keys, other than quickRoles, that the home file holds now
\* and that the running save did not read
UnreadKeys == OtherKeys(ExistingConfig(homeFile)) \ OtherKeys(saveConfig)

\* the home file holds what the running save read from it
AsRead == ExistingConfig(homeFile) = saveConfig

\* C26: nothing keeps another process from writing the home file between
\* the save's read and its write: a top-level key written in between is
\* absent from the file after the save has returned success; when the file
\* still holds what the save read, the save loses no top-level key.
C26_InterleavedWriteIsLost ==
    [][SaveSucceeds =>
         /\ \A k \in UnreadKeys : k \notin OtherKeys(homeFile'.value)
         /\ AsRead => \A k \in OtherKeys(ExistingConfig(homeFile)) :
                          /\ k \in OtherKeys(homeFile'.value)
                          /\ homeFile'.value.props[k] = homeFile.value.props[k]]_vars

\* the save has read a file without the key lang, another process has then
\* written the key, and the save can now write the file without it and
\* return success
C26_Witness ==
    /\ savePc = "write"
    /\ saveConfig = JsObject([theme |-> JsNumber(1)])
    /\ homeFile = JsonText(JsObject([theme |-> JsNumber(2), lang |-> JsNumber(3)]))
    /\ ENABLED (/\ SaveWrite
                /\ saveResult'.success
                /\ "lang" \notin DOMAIN homeFile'.value.props
                /\ homeFile'.value.props["theme"] = JsNumber(1))

\* a save with no write in between keeps the keys of the file
C26_UndisturbedCase ==
    /\ savePc = "write"
    /\ AsRead
    /\ saveConfig = JsObject([theme |-> JsNumber(1), quickRoles |-> StoredConfig])
    /\ ENABLED (SaveWrite /\ saveResult'.success)

\* a load has returned and no source has changed since
Loaded == loadResult # JsUndefined

\* the environment variable holds a JSON array or a config object
EnvPopulated == EnvDecides(env) /\ env.PIM_QUICK_ROLES.value.t \in {"array", "object"}

\* the text is malformed JSON
Malformed(text) == text.kind \notin {"absent", "empty"} /\ ~Parses(text)

\* the load the claim describes: the first populated source decides
FirstPopulated ==
    IF EnvPopulated THEN FromEnv(env)
    ELSE IF FileDecides(CwdText) THEN GetProp(CwdText.value, "quickRoles")
    ELSE IF FileDecides(homeFile) THEN GetProp(homeFile.value, "quickRoles")
    ELSE JsNull

\* a warning is printed for each malformed source that was tried
MalformedWarned ==
    LET w == LoadWarnings(env, CwdText, homeFile)
        has(x) == \E i \in 1..Len(w) : w[i] = x
    IN /\ Malformed(env.PIM_QUICK_ROLES) => has("env")
       /\ ~EnvPopulated /\ Malformed(CwdText) => has("cwd")
       /\ ~EnvPopulated /\ ~FileDecides(CwdText) /\ Malformed(homeFile) => has("home")

\* C12 (as claimed): loadQuickRolesConfig returns the config of the first
\* populated source in the order environment variable, current-directory
\* file, home file; a malformed source is skipped with a warning and the
\* next one is tried; the result is null exactly when no source is populated.
C12_FirstPopulatedSourceWins ==
    Loaded =>
      /\ loadResult = FirstPopulated
      /\ MalformedWarned
      /\ loadResult = JsNull
           <=> ~(EnvPopulated \/ FileDecides(CwdText) \/ FileDecides(homeFile))

\* the claim holds of every load in which PIM_QUICK_ROLES does not hold
\* valid JSON other than an array or an object
C12_UnlessEnvHoldsOtherJson ==
    Loaded /\ (EnvDecides(env) => EnvPopulated) =>
      /\ loadResult = FirstPopulated
      /\ MalformedWarned
      /\ loadResult = JsNull
           <=> ~(EnvPopulated \/ FileDecides(CwdText) \/ FileDecides(homeFile))

\* PIM_QUICK_ROLES holds the text null, the home file holds a config, and
\* the load returns null
C12_NullOverride ==
    /\ Loaded
    /\ env.PIM_QUICK_ROLES = JsonText(JsNull)
    /\ FileDecides(homeFile)
    /\ loadResult = JsNull

----------------------------------------------------------------------------
(* Specification of the MCP server handling a tool call *)

NoEnvironment ==
    [PIM_QUICK_ROLES |-> Absent, PIM_QUICK_ROLES_DESC |-> JsUndefined,
     PIM_DEFAULT_JUSTIFICATION |-> JsUndefined]

\* PIM_QUICK_ROLES holds an array of roles
ArrayEnvironment(j) ==
    [PIM_QUICK_ROLES |-> JsonText(JsRoles(<<[name |-> <<"a">>, scope |-> <<>>]>>)),
     PIM_QUICK_ROLES_DESC |-> JsUndefined, PIM_DEFAULT_JUSTIFICATION |-> j]

\* a quickRoles entry whose defaultJustification is the empty string
ConfigWithEmptyJustification ==
    Serialized(QuickRolesObject(JsRoles(<<[name |-> <<"b">>, scope |-> <<"x">>]>>),
                                JsUndefined, JsString(<<>>)))

\* PIM_QUICK_ROLES holds a config object that has no roles
ConfigWithoutRolesEnvironment ==
    [PIM_QUICK_ROLES |-> JsonText(JsObject([defaultJustification |-> JsString(Str("env work"))])),
     PIM_QUICK_ROLES_DESC |-> JsUndefined, PIM_DEFAULT_JUSTIFICATION |-> JsUndefined]

\* a quickRoles entry whose roles array holds null
ConfigWithNullRole ==
    JsObject([roles |-> JsArray(<<JsNull>>), defaultJustification |-> JsString(Str("old work"))])

\* the config sources the server is started with
ToolSources ==
    { [env |-> NoEnvironment, cwd |-> Absent, home |-> Absent],
      [env |-> NoEnvironment, cwd |-> Absent, home |-> Corrupt],
      [env |-> NoEnvironment, cwd |-> Absent,
       home |-> JsonText(JsObject([theme |-> JsNumber(1)]))],
      [env |-> NoEnvironment, cwd |-> Absent,
       home |-> JsonText(JsObject([theme |-> JsNumber(1), quickRoles |-> StoredConfig]))],
      [env |-> NoEnvironment, cwd |-> Absent,
       home |-> JsonText(JsObject([quickRoles |-> ConfigWithEmptyJustification]))],
      [env |-> NoEnvironment, cwd |-> JsonText(JsObject([quickRoles |-> StoredConfig])),
       home |-> JsonText(JsObject([theme |-> JsNumber(1)]))],
      [env |-> ArrayEnvironment(JsUndefined), cwd |-> Absent, home |-> Absent],
      [env |-> ArrayEnvironment(JsString(Str("env text"))), cwd |-> Absent,
       home |-> JsonText(JsObject([theme |-> JsNumber(1), quickRoles |-> StoredConfig]))],
      [env |-> ConfigWithoutRolesEnvironment, cwd |-> Absent, home |-> Absent],
      [env |-> NoEnvironment, cwd |-> Absent,
       home |-> JsonText(JsObject([quickRoles |-> ConfigWithNullRole]))] }

InitTools ==
    /\ BatchIdle
    /\ SaveIdle
    /\ ToolIdle
    /\ savePc = "idle"
    /\ cwdIsHome = FALSE
    /\ \E src \in ToolSources :
         /\ env = src.env
         /\ cwdFile = src.cwd
         /\ homeFile = src.home

NextTools ==
    \/ CallUnknown
    \/ CallListEligible
    \/ CallListActive
    \/ CallListQuickRoles
    \/ CallSaveQuickRoles
    \/ CallActivateQuickRoles
    \/ CallActivatePimRoles
    \/ CallLibraryActivateQuickRoles
    \/ ResolveIdentity
    \/ FetchEligible
    \/ NoMatch
    \/ Activate
    \/ NotIterable
    \/ Return
    \/ FinishActivation

SpecTools == InitTools /\ [][NextTools]_vars

----------------------------------------------------------------------------
(* Properties of the tool handlers *)

\* the handler of the named tool has returned
Handled(name) == tool.name = name /\ toolResult.returned

\* the indices given to save_quick_roles, when they are an array of numbers
GivenIndices ==
    IF tool.indices.t = "array"
    THEN {tool.indices.items[k].n : k \in 1..Len(tool.indices.items)}
    ELSE {}

\* those outside [0, roleCount) of the listing the handler fetched
OutOfRange == {i \in GivenIndices : i < 0 \/ i >= Len(toolList.roles)}

\* the indices an "Invalid indices" message names
NamedIndices(text) == {text[k] : k \in 2..(Len(text) - 3)} \ {", "}

\* C13: when save_quick_roles is given an index outside [0, roleCount) of the
\* eligible-role listing, the call fails, the error names exactly the invalid
\* indices, and the home config file holds what it held before the call,
\* also when other indices of the call are valid.
C13_InvalidIndexNoWrite ==
    [][(Handled("save_quick_roles") /\ toolList.success /\ OutOfRange # {})' =>
         /\ toolResult'.isError
         /\ toolResult'.text[1] = "Error: Invalid indices: "
         /\ NamedIndices(toolResult'.text) = {ToString(i) : i \in OutOfRange'}
         /\ homeFile' = homeFile
         /\ cwdFile' = cwdFile]_vars

C13_Witness ==
    /\ Handled("save_quick_roles")
    /\ toolList.success
    /\ Len(toolList.roles) = 2
    /\ tool.indices = JsArray(<<JsNumber(0), JsNumber(2)>>)
    /\ toolResult.isError
    /\ NamedIndices(toolResult.text) = {"2"}
    /\ homeFile = JsonText(JsObject([theme |-> JsNumber(1), quickRoles |-> StoredConfig]))

\* no source holds a quick-roles config: no environment override, and no
\* config file with a quickRoles entry
NoConfigAnywhere ==
    /\ ~EnvDecides(env)
    /\ ~FileDecides(CwdText)
    /\ ~FileDecides(homeFile)

\* no external command was run: no token request, no listing, no submission
NoCommandRun == calls = <<>> /\ pc = "idle" /\ toolPc = "idle"

\* C14: when no source holds a quick-roles config, activate_quick_roles
\* returns an error result and the library's activateQuickRoles throws the
\* configuration error, and in both cases no external command is run.
C14_NoConfigNoCommand ==
    NoConfigAnywhere =>
      /\ tool.name = "activate_quick_roles" =>
            /\ toolResult = ToolError(NotConfiguredText)
            /\ NoCommandRun
      /\ tool.name = "activateQuickRoles" =>
            /\ toolResult = Thrown(LibraryNotConfiguredText)
            /\ NoCommandRun

C14_Witness ==
    /\ NoConfigAnywhere
    /\ homeFile = Corrupt
    /\ tool.name = "activate_quick_roles"
    /\ tool.justification = Str("hot fix")
    /\ toolResult.isError
    /\ calls = <<>>

\* the library's activateQuickRoles has thrown for want of a config
C14_LibraryCase ==
    /\ NoConfigAnywhere
    /\ homeFile = JsonText(JsObject([theme |-> JsNumber(1)]))
    /\ tool.name = "activateQuickRoles"
    /\ tool.justification = Str("hot fix")
    /\ toolResult.threw
    /\ calls = <<>>

\* what a lister owes its caller for the answer a of its command
ListerContract(a, r) ==
    IF a.ok /\ a.json
    THEN /\ r.success
         /\ \E k \in 1..Len(r.message) : r.message[k] = ToString(Len(r.roles))
    ELSE /\ ~r.success
         /\ r.roles = <<>>
         /\ includes(r.message, a.error)

\* C15: the two listers never throw: when the external command fails or its
\* output does not parse, listEligibleRoles and listActiveRoles return
\* success false, no roles, and a message holding the error text; otherwise
\* they return success true and a message giving the number of records.
C15_ListersReturnResults ==
    /\ azList # NoListAnswer => ListerContract(azList, toolList)
    /\ azActive # NoListAnswer => ListerContract(azActive, toolActive)

C15_Witness ==
    /\ tool.name = "list_eligible_roles"
    /\ azList.ok
    /\ ~azList.json
    /\ ~toolList.success
    /\ toolList.roles = <<>>
    /\ includes(toolList.message, Str("Unexpected token < in JSON"))

\* the active-role lister has reported a failed command
C15_ActiveCase ==
    /\ tool.name = "list_active_roles"
    /\ ~azActive.ok
    /\ azActive.error # <<>>
    /\ ~toolActive.success
    /\ toolActive.roles = <<>>
    /\ includes(toolActive.message, azActive.error)

\* the entries of the answer whose assignmentType is "Activated", in order
RECURSIVE OnlyActivated(_)
OnlyActivated(value) ==
    IF value = <<>> THEN <<>>
    ELSE (IF value[1].assignmentType = <<"Activated">> THEN <<value[1]>> ELSE <<>>)
         \o OnlyActivated(Tail(value))

\* C16: the Active-Role Lister returns exactly the entries of the answer whose
\* assignmentType is exactly "Activated", in the order of the answer; an
\* entry with another or no assignmentType is left out, and the count in
\* the message is the number of entries returned.
C16_OnlyActivatedListed ==
    azActive.ok /\ azActive.json =>
      LET kept == OnlyActivated(azActive.value)
      IN /\ Len(toolActive.roles) = Len(kept)
         /\ \A k \in 1..Len(kept) : toolActive.roles[k].id = kept[k].id
         /\ toolActive.message =
              <<"Found ", ToString(Len(toolActive.roles)), " active PIM role assignments.">>

C16_Witness ==
    /\ azActive.ok
    /\ azActive.json
    /\ Len(azActive.value) = 2
    /\ azActive.value[1].assignmentType = Str("Assigned")
    /\ azActive.value[2].assignmentType = Str("Activated")
    /\ Len(toolActive.roles) = 1
    /\ toolActive.roles[1].id = Str("a1")

\* the names the switch of the handler knows
KnownTools == {"activate_quick_roles", "list_eligible_roles", "list_active_roles",
               "activate_pim_roles", "list_quick_roles", "save_quick_roles"}

\* a call to the handler (not to the library) is being or has been handled
ToolCalled == tool.name # "" /\ tool.name # "activateQuickRoles"

\* the arguments of the call do not pass the handler's validation
ValidationFailure ==
    \/ /\ tool.name = "activate_pim_roles"
       /\ ~tool.roles.given \/ tool.roles.names = <<>> \/ ~Truthy(tool.justification)
    \/ /\ tool.name = "save_quick_roles"
       /\ ~JsTruthy(tool.indices) \/ tool.indices = JsArray(<<>>)
    \/ /\ tool.name = "activate_quick_roles"
       /\ \/ ~JsTruthy(loadResult)
          \/ /\ ~Truthy(tool.justification)
             /\ ~JsTruthy(GetProp(loadResult, "defaultJustification"))

\* the listing the handler asked for has failed
OwnListingFailed ==
    \/ azList # NoListAnswer /\ ~toolList.success
    \/ azActive # NoListAnswer /\ ~toolActive.success

SaveFailed == saveResult.returned /\ ~saveResult.success

\* an exception was thrown in the handler: indices is not an array
ExceptionThrown ==
    /\ tool.name = "save_quick_roles"
    /\ JsTruthy(tool.indices)
    /\ tool.indices.t # "array"
    /\ toolList.success

MarkedError == toolResult.returned /\ toolResult.isError /\ toolResult.text # <<>>

\* C17 (as claimed): every tool invocation returns a structured result and no
\* exception escapes the handler; an unknown tool name, a validation failure,
\* a failed listing or save, and an exception thrown while handling the call
\* each give a result marked isError with a text message.
C17_FailuresAreMarked ==
    ToolCalled /\ toolPc = "idle" =>
      /\ toolResult.returned
      /\ ~toolResult.threw
      /\ toolResult.text # <<>>
      /\ \/ tool.name \notin KnownTools
         \/ ValidationFailure
         \/ OwnListingFailed
         \/ SaveFailed
         \/ ExceptionThrown
         => MarkedError

\* the same, a failed listing of list_eligible_roles left aside
C17_ExceptListEligible ==
    ToolCalled /\ toolPc = "idle" =>
      /\ toolResult.returned
      /\ ~toolResult.threw
      /\ toolResult.text # <<>>
      /\ \/ tool.name \notin KnownTools
         \/ ValidationFailure
         \/ OwnListingFailed /\ tool.name # "list_eligible_roles"
         \/ SaveFailed
         \/ ExceptionThrown
         => MarkedError

\* list_eligible_roles has returned a failed listing without the error mark
C17_UnmarkedFailedListing ==
    /\ Handled("list_eligible_roles")
    /\ ~azList.ok
    /\ ~toolList.success
    /\ ~toolResult.isError

\* activate_quick_roles or the library's activateQuickRoles was called and
\* found a config
QuickActivation ==
    /\ tool.name \in {"activate_quick_roles", "activateQuickRoles"}
    /\ JsTruthy(loadResult)

\* the defaultJustification of the config that call loaded
ConfiguredDefault ==
    LET v == GetProp(loadResult, "defaultJustification")
    IN IF v.t = "string" THEN v.s ELSE <<>>

\* the batch of the call was started with justification j
ActivatesWith(j) == pc # "idle" /\ justification = j

\* C18: activate_quick_roles (the tool and the library function) uses the
\* justification given explicitly when it is not empty and the config's
\* defaultJustification otherwise; when neither is non-empty it fails with
\* the justification-required error and no external command is run.  No
\* activation request of activate_quick_roles or activate_pim_roles carries
\* an empty justification.
C18_JustificationExplicitOrDefault ==
    /\ QuickActivation /\ Truthy(tool.justification) => ActivatesWith(tool.justification)
    /\ QuickActivation /\ ~Truthy(tool.justification) /\ Truthy(ConfiguredDefault)
         => ActivatesWith(ConfiguredDefault)
    /\ QuickActivation /\ ~Truthy(tool.justification) /\ ~Truthy(ConfiguredDefault)
         => /\ NoCommandRun
            /\ tool.name = "activate_quick_roles"
                 => toolResult = ToolError(JustificationRequiredText)
            /\ tool.name = "activateQuickRoles"
                 => toolResult = Thrown(LibraryJustificationRequiredText)
    /\ \A c \in Puts :
         /\ calls[c].body["justification"] # <<>>
         /\ calls[c].body["justification"] # Undefined

C18_Witness ==
    /\ tool.name = "activate_quick_roles"
    /\ tool.justification = <<>>
    /\ ConfiguredDefault = Str("env text")
    /\ \E c \in Puts : calls[c].body["justification"] = Str("env text")

\* neither an explicit nor a default justification: the call has failed
C18_NeitherCase ==
    /\ tool.name = "activate_quick_roles"
    /\ loadResult = ConfigWithEmptyJustification
    /\ tool.justification = Undefined
    /\ toolResult.isError
    /\ calls = <<>>

\* activate_pim_roles has submitted a request with the justification given
C18_PimCase ==
    /\ tool.name = "activate_pim_roles"
    /\ \E c \in Puts : calls[c].body["justification"] = Str("hot fix")

----------------------------------------------------------------------------
(* Specification of the Role Matcher: one reference against one listing *)

\* references whose name and scope stand in each relation to the records
MatcherRefs ==
    { [name |-> <<"a">>,      scope |-> <<"/", "x", "/", "y">>],
      [name |-> <<"a", "b">>, scope |-> <<>>],
      [name |-> <<"B">>,      scope |-> <<"y">>],
      [name |-> <<"a">>,      scope |-> <<"w", "x", "y", "z">>] }

MatcherItems ==
    { [id |-> Str("m1"), roleDefinitionId |-> Str("rd1"), displayName |-> <<"a", "b">>,
       scope |-> <<"/", "x">>, scopeDisplayName |-> <<"P">>,
       principalId |-> Str("user-1"), memberType |-> Undefined,
       roleEligibilityScheduleId |-> Str("sched-1")],
      [id |-> Str("m2"), roleDefinitionId |-> Str("rd2"), displayName |-> <<"b">>,
       scope |-> <<"/", "x", "/", "y">>, scopeDisplayName |-> Undefined,
       principalId |-> Str("user-1"), memberType |-> Undefined,
       roleEligibilityScheduleId |-> Str("sched-2")],
      [id |-> Str("m3"), roleDefinitionId |-> Str("rd3"), displayName |-> <<"A">>,
       scope |-> <<"/", "z">>, scopeDisplayName |-> <<"X", "Y">>,
       principalId |-> Str("user-1"), memberType |-> Undefined,
       roleEligibilityScheduleId |-> Str("sched-3")] }

\* activatePimRolesCli has resolved the identity and fetched the listing;
\* the loop is about to look for the one reference
InitMatch ==
    /\ pc = "loop"
    /\ \E ref \in MatcherRefs : roles = <<ref>>
    /\ justification = Str("dev work")
    /\ durationHours = DefaultDurationHours
    /\ durationArg = NoDuration
    /\ userPrincipalId = Str("user-1")
    /\ \E v \in SeqsUpTo(MatcherItems, MaxRecords) :
         listResult = ListEligible([ok |-> TRUE, json |-> TRUE, value |-> v, error |-> <<>>])
    /\ idx = 1
    /\ activatedRoles = <<>>
    /\ failedRoles = <<>>
    /\ result = NoResult
    /\ calls = << [cmd |-> "token", ref |-> 0, rec |-> 0, scope |-> <<>>, url |-> <<>>,
                   body |-> <<>>, answer |-> NoAnswer,
                   token |-> [ok |-> TRUE, parts |-> 3, json |-> TRUE, oid |-> Str("user-1")]],
                  ListCall >>
    /\ matchLog = <<>>
    /\ ConfigIdle
    /\ ToolIdle

NextMatch ==
    \/ NoMatch
    \/ Activate
    \/ Return

SpecMatch == InitMatch /\ [][NextMatch]_vars

\* condition (a): one of the two names is a substring of the other
NamesAgree(r, role) ==
    LET recordName == toLowerCase(r.roleName)
        requested == toLowerCase(role.name)
    IN includes(recordName, requested) \/ includes(requested, recordName)

\* condition (b) as claimed: the requested scope is a substring of the raw or
\* of the display scope, or one of these is a substring of the requested scope
ScopesAgree(r, role) ==
    LET requested == toLowerCase(role.scope)
        raw == toLowerCase(r.scope)
        display == toLowerCase(r.scopeName)
    IN \/ includes(raw, requested)
       \/ includes(display, requested)
       \/ includes(requested, raw)
       \/ includes(requested, display)

\* condition (b) without the raw scope as a substring of the requested scope
ScopesAgreeButRawInRequested(r, role) ==
    LET requested == toLowerCase(role.scope)
        raw == toLowerCase(r.scope)
        display == toLowerCase(r.scopeName)
    IN \/ includes(raw, requested)
       \/ includes(display, requested)
       \/ includes(requested, display)

\* the record found for reference k is the first of the listing that the
\* condition accepts, and none is found exactly when it accepts none
FirstAccepted(k, Accepts(_, _)) ==
    LET hits == {i \in 1..Len(listResult.roles) : Accepts(listResult.roles[i], roles[k])}
    IN IF hits = {} THEN matchLog[k].rec = 0
       ELSE /\ matchLog[k].rec \in hits
            /\ \A j \in hits : matchLog[k].rec <= j

ClaimedMatch(r, role) == NamesAgree(r, role) /\ ScopesAgree(r, role)

AmendedMatch(r, role) == NamesAgree(r, role) /\ ScopesAgreeButRawInRequested(r, role)

\* C20 (as claimed): for every reference and listing the Role Matcher returns
\* the first record in listing order for which, case-insensitively, (a) one
\* of requested name and role name is a substring of the other and (b) the
\* requested scope is a substring of the raw or display scope or the raw or
\* display scope is a substring of the requested scope; it reports no match
\* exactly when no record satisfies both.
C20_FirstMatchEitherDirection ==
    \A k \in 1..Len(matchLog) : FirstAccepted(k, ClaimedMatch)

\* C20 (amended): as claimed, but in (b) only the display scope, not the raw
\* scope, is looked for as a substring of the requested scope.
C20_FirstMatchDisplayReverseOnly ==
    \A k \in 1..Len(matchLog) : FirstAccepted(k, AmendedMatch)

\* the second record is found: by its name inside the requested name and its
\* display scope inside the requested scope, the first record failing on scope
C20_Witness ==
    /\ Len(matchLog) = 1
    /\ matchLog[1].rec = 2
    /\ roles[1] = [name |-> <<"a">>, scope |-> <<"w", "x", "y", "z">>]
    /\ listResult.roles[1].id = Str("m1")
    /\ listResult.roles[2].id = Str("m3")

\* the raw scope of a record is inside the requested scope, its name agrees,
\* and no match is reported
C20_RawScopeInsideRequest ==
    /\ Len(matchLog) = 1
    /\ matchLog[1].rec = 0
    /\ roles[1].scope = <<"/", "x", "/", "y">>
    /\ listResult.roles[1].id = Str("m1")
    /\ ClaimedMatch(listResult.roles[1], roles[1])

----------------------------------------------------------------------------
(* Specification of a server session: quick-roles requests one after another *)

\* the config sources the session starts with
SessionSources ==
    { [env |-> NoEnvironment, cwd |-> Absent, home |-> Absent],
      [env |-> NoEnvironment, cwd |-> Absent,
       home |-> JsonText(JsObject([theme |-> JsNumber(1), quickRoles |-> StoredConfig]))],
      [env |-> NoEnvironment, cwd |-> Absent, home |-> JsonText(JsArray(<<JsNumber(1)>>))],
      [env |-> ArrayEnvironment(JsString(Str("env text"))), cwd |-> Absent,
       home |-> JsonText(JsObject([theme |-> JsNumber(1), quickRoles |-> StoredConfig]))] }

InitSession ==
    /\ BatchIdle
    /\ SaveIdle
    /\ ToolIdle
    /\ savePc = "idle"
    /\ cwdIsHome = FALSE
    /\ \E src \in SessionSources :
         /\ env = src.env
         /\ cwdFile = src.cwd
         /\ homeFile = src.home

NextSession ==
    \/ CallListQuickRoles
    \/ CallSaveQuickRoles
    \/ CallActivateQuickRoles
    \/ ResolveIdentity
    \/ FetchEligible
    \/ NoMatch
    \/ Activate
    \/ Return
    \/ FinishActivation
    \/ AwaitRequest
    \/ EditConfig

SpecSession == InitSession /\ [][NextSession]_vars

----------------------------------------------------------------------------
(* Properties of a server session *)

\* the step in which the handler of the named tool is entered
Enters(name) == tool = NoCall /\ tool'.name = name

\* the config that the sources hold: that of the first of the environment
\* variable, the current-directory file and the home file that has one
HeldConfig ==
    IF env.PIM_QUICK_ROLES.kind = "json"
    THEN (IF env.PIM_QUICK_ROLES.value.t = "array"
          THEN JsObject([roles |-> env.PIM_QUICK_ROLES.value,
                         description |-> env.PIM_QUICK_ROLES_DESC,
                         defaultJustification |-> env.PIM_DEFAULT_JUSTIFICATION])
          ELSE env.PIM_QUICK_ROLES.value)
    ELSE IF CwdText.kind = "json" /\ CwdText.value.t = "object"
            /\ "quickRoles" \in DOMAIN CwdText.value.props
            /\ JsTruthy(CwdText.value.props["quickRoles"])
    THEN CwdText.value.props["quickRoles"]
    ELSE IF homeFile.kind = "json" /\ homeFile.value.t = "object"
            /\ "quickRoles" \in DOMAIN homeFile.value.props
            /\ JsTruthy(homeFile.value.props["quickRoles"])
    THEN homeFile.value.props["quickRoles"]
    ELSE JsNull

\* the default justification of a config, <<>> when it has none
DefaultOf(config) ==
    LET v == GetProp(config, "defaultJustification")
    IN IF v.t = "string" THEN v.s ELSE <<>>

\* the handler entered in this step works with the given config
ActivatesFrom(config) ==
    IF ~JsTruthy(config) THEN toolResult' = ToolError(NotConfiguredText)
    ELSE LET j == IF Truthy(tool'.justification) THEN tool'.justification
                  ELSE DefaultOf(config)
         IN IF j = <<>> THEN toolResult' = ToolError(JustificationRequiredText)
            ELSE /\ pc' = "token"
                 /\ roles' = RolesOf(GetProp(config, "roles"))
                 /\ justification' = j

\* the list_quick_roles result of this step shows the roles of the config
ListsFrom(config) ==
    /\ loadResult' = config
    /\ LET lines == <<"<nl><nl>**Currently configured quick roles:**<nl>">>
                    \o RoleLines(RolesOf(GetProp(config, "roles")))
           text == toolResult'.text
       IN IF JsTruthy(config)
          THEN /\ Len(text) >= Len(lines)
               /\ SubSeq(text, Len(text) - Len(lines) + 1, Len(text)) = lines
          ELSE \A k \in 1..Len(text) :
                   text[k] # "<nl><nl>**Currently configured quick roles:**<nl>"

\* C23: the quick-roles config is not kept in memory: every
\* activate_quick_roles call and every list_quick_roles call that lists the
\* roles works with the config that the sources hold when the call arrives,
\* whatever was saved, edited or activated before it.
C23_ConfigReadAtEveryCall ==
    [][/\ Enters("activate_quick_roles") => ActivatesFrom(HeldConfig)
       /\ Enters("list_quick_roles") /\ ~toolResult'.isError => ListsFrom(HeldConfig)]_vars

\* an activation used the stored config, the home file was then edited, and
\* the next activation runs with the roles and the default justification of
\* the edited file
C23_Witness ==
    /\ tool.name = "activate_quick_roles"
    /\ served = 1
    /\ prior = StoredConfig
    /\ homeFile = JsonText(JsObject([quickRoles |-> EditedConfig]))
    /\ pc = "token"
    /\ roles = <<[name |-> <<"a">>, scope |-> <<"y">>]>>
    /\ justification = Str("edit work")

\* a list_quick_roles call after a save shows the saved roles
C23_ListAfterSaveCase ==
    /\ tool.name = "list_quick_roles"
    /\ served = 1
    /\ fresh
    /\ saveConfig.t = "object"
    /\ env = NoEnvironment
    /\ loadResult = GetProp(homeFile.value, "quickRoles")
    /\ GetProp(loadResult, "roles") = saveArgs.roles
    /\ ~toolResult.isError

\* the quickRoles entry of the home file has exactly the roles, description
\* and default justification of the last save, a key for each one passed
StoredAsPassed ==
    /\ Parses(homeFile)
    /\ LET entry == GetProp(homeFile.value, "quickRoles")
           passed == {k \in {"roles", "description", "defaultJustification"} :
                        saveArgs[k].t # "undefined"}
       IN /\ entry.t = "object"
          /\ DOMAIN entry.props = passed
          /\ \A k \in passed : entry.props[k] = saveArgs[k]

\* the last save succeeded and no config source was touched since
SavedAndUntouched == fresh /\ saveResult.success

\* activate_quick_roles is entered without a justification after a save
\* that passed no default justification
ActivatesAfterSaveWithoutDefault ==
    /\ Enters("activate_quick_roles")
    /\ ~Truthy(tool'.justification)
    /\ SavedAndUntouched
    /\ saveArgs.defaultJustification = JsUndefined

\* C24 (as claimed): after a save the stored roles, description and
\* defaultJustification are exactly those passed to it, and after a save
\* that passes no defaultJustification a following activate_quick_roles
\* without a justification fails with the justification-required error.
C24_SaveOverwritesWholesale ==
    [][/\ SavedAndUntouched' => StoredAsPassed'
       /\ ActivatesAfterSaveWithoutDefault
            => toolResult' = ToolError(JustificationRequiredText)]_vars

\* C24 (amended): the same when the home file that the save read was absent,
\* unparseable or a JSON object and, for the activation, no config source of
\* higher precedence is populated; after a save into a home file holding a
\* JSON array the file has no quickRoles entry, and the activation fails with
\* the not-configured error unless a source of higher precedence is populated.
C24_WholesaleInHomeFile ==
    [][/\ SavedAndUntouched'
            => IF saveConfig'.t = "object" THEN StoredAsPassed'
               ELSE GetProp(homeFile'.value, "quickRoles") = JsUndefined
       /\ ActivatesAfterSaveWithoutDefault /\ ~HigherSourcePopulated
            => toolResult' = ToolError(IF saveConfig.t = "object"
                                       THEN JustificationRequiredText
                                       ELSE NotConfiguredText)]_vars

\* the entry that the save replaced had a default justification, the save
\* passed none, and the activation that follows is refused for want of one
C24_Witness ==
    /\ tool.name = "activate_quick_roles"
    /\ toolResult = ToolError(JustificationRequiredText)
    /\ SavedAndUntouched
    /\ saveArgs.defaultJustification = JsUndefined
    /\ saveArgs.description = JsUndefined
    /\ DefaultOf(GetProp(saveConfig, "quickRoles")) = Str("old work")
    /\ DOMAIN GetProp(homeFile.value, "quickRoles").props = {"roles"}

\* PIM_QUICK_ROLES holds a config with a default justification: the
\* activation after such a save runs with it
C24_EnvironmentDecidesCase ==
    /\ tool.name = "activate_quick_roles"
    /\ tool.justification = Undefined
    /\ SavedAndUntouched
    /\ saveArgs.defaultJustification = JsUndefined
    /\ pc = "token"
    /\ justification = Str("env text")

\* the home file held a JSON array: the activation after the save finds no config
C24_ArrayFileCase ==
    /\ tool.name = "activate_quick_roles"
    /\ SavedAndUntouched
    /\ saveConfig.t = "array"
    /\ toolResult = ToolError(NotConfiguredText)

----------------------------------------------------------------------------
(* Properties of activate_pim_roles *)

\* the batch of an activate_pim_roles call has started
PimBatch == tool.name = "activate_pim_roles" /\ pc # "idle"

\* the names agree, whatever the scopes
NameOnly(r, role) == NamesAgree(r, role)

\* C25: activate_pim_roles turns each given string into a reference with
\* that name and an empty scope; the record found for such a reference is the
\* first record of the listing whose name matches, whatever its scope, and
\* the submission is made for it; with an empty roles array the tool returns
\* an error and runs no external command.
C25_NamesWithEmptyScope ==
    /\ PimBatch =>
         /\ Len(roles) = Len(tool.roles.names)
         /\ \A k \in 1..Len(roles) :
               roles[k].name = tool.roles.names[k] /\ roles[k].scope = <<>>
         /\ \A k \in 1..Len(matchLog) :
               /\ FirstAccepted(k, NameOnly)
               /\ matchLog[k].rec # 0 => SubmittedFor(k, matchLog[k].rec)
    /\ tool.name = "activate_pim_roles" /\ tool.roles.given /\ tool.roles.names = <<>>
         => /\ toolResult = ToolError(Str("Error: No roles specified for activation."))
            /\ NoCommandRun

\* the name "a" is given; the first record is named "b" and the second, at
\* scope /x/y, is named "A": the second is activated
C25_Witness ==
    /\ PimBatch
    /\ tool.roles.names = <<<<"a">>>>
    /\ Len(listResult.roles) = 2
    /\ listResult.roles[1].roleName = <<"b">>
    /\ listResult.roles[2].scope = <<"/", "x", "/", "y">>
    /\ Len(matchLog) = 1
    /\ matchLog[1].rec = 2
    /\ \E c \in Puts : calls[c].scope = <<"/", "x", "/", "y">>

\* an empty roles array
C25_EmptyArrayCase ==
    /\ tool.name = "activate_pim_roles"
    /\ tool.roles.given
    /\ tool.roles.names = <<>>
    /\ tool.justification = Str("hot fix")
    /\ toolResult.isError
    /\ calls = <<>>

----------------------------------------------------------------------------
(* Properties of save_quick_roles in a session *)

\* the save_quick_roles call has saved, after a list_quick_roles call had
\* shown a list
SavedFromShown ==
    /\ tool.name = "save_quick_roles"
    /\ toolResult.returned
    /\ ~toolResult.isError
    /\ shown.listed

\* the role saved for each index is the role shown at that index
SavedAreShown ==
    LET ints == IndexNumbers(tool.indices)
        saved == saveArgs.roles.items
    IN /\ Len(saved) = Len(ints)
       /\ \A k \in 1..Len(ints) :
             /\ ints[k] + 1 \in 1..Len(shown.roles)
             /\ saved[k] = JsRole([name |-> shown.roles[ints[k] + 1].roleName,
                                   scope |-> shown.roles[ints[k] + 1].scopeName])

\* C27 (as claimed): for every index it is given, the role that
\* save_quick_roles saves is the role that the most recent list_quick_roles
\* call displayed at that index, also when the listing the API returns has
\* changed between the two calls.
C27_SavesWhatWasShown ==
    SavedFromShown => SavedAreShown

\* the claim holds of every save whose own listing is the one that was shown
C27_WhenListingUnchanged ==
    SavedFromShown /\ toolList.roles = shown.roles => SavedAreShown

\* list_quick_roles showed one record at index 0, the API then listed another
\* record at index 0, and save_quick_roles with index 0 has saved that one
C27_ChangedListingCase ==
    /\ SavedFromShown
    /\ served = 1
    /\ tool.indices = JsArray(<<JsNumber(0)>>)
    /\ Len(shown.roles) = 1
    /\ shown.roles[1].roleName = <<"b">>
    /\ Len(toolList.roles) = 1
    /\ toolList.roles[1].roleName = <<"a", "b">>
    /\ saveArgs.roles.items[1] = JsRole([name |-> <<"a", "b">>, scope |-> <<"X">>])
    /\ GetProp(GetProp(homeFile.value, "quickRoles"), "roles") = saveArgs.roles

\* the listing is the same at both calls
C27_UnchangedListingCase ==
    /\ SavedFromShown
    /\ toolList.roles = shown.roles
    /\ Len(shown.roles) = 2
    /\ tool.indices = JsArray(<<JsNumber(1)>>)
    /\ SavedAreShown

----------------------------------------------------------------------------
(* Properties of activateRoles on the roles of a config *)

\* activateRoles has ended for the call at hand
ActivationEnded == pc = "done"

\* C28 (as claimed): activateRoles never throws: for every roles value it is
\* given, the roles of any config that loadQuickRolesConfig returns included,
\* and for every outcome of the external calls it returns an outcome
\* {success, activatedRoles, failedRoles, message}.
C28_NeverThrows ==
    ActivationEnded => result.returned /\ ~result.threw

\* the claim holds of every call whose roles are an array of {name, scope}
\* objects
C28_TypedRolesNeverThrow ==
    ActivationEnded /\ RolesTyped =>
      /\ result.returned /\ ~result.threw
      /\ Len(result.activatedRoles) + Len(result.failedRoles) >= 0
      /\ result.message # <<>>

\* PIM_QUICK_ROLES holds an object without roles: the library's
\* activateQuickRoles passes undefined to activateRoles, whose promise is
\* rejected after the identity call failed
C28_ConfigWithoutRolesCase ==
    /\ tool.name = "activateQuickRoles"
    /\ env = ConfigWithoutRolesEnvironment
    /\ untypedRoles = JsUndefined
    /\ justification = Str("env work")
    /\ Len(calls) = 1
    /\ result.threw
    /\ toolResult.threw

\* the roles array of the home file's config holds null: the promise is
\* rejected when the loop is entered, after both calls succeeded
C28_NullRoleCase ==
    /\ tool.name = "activate_quick_roles"
    /\ untypedRoles = JsArray(<<JsNull>>)
    /\ Len(calls) = 2
    /\ listResult.success
    /\ result.threw
    /\ toolResult.isError

\* a run on typed roles whose identity call failed returns an outcome
C28_TypedCase ==
    /\ ActivationEnded
    /\ RolesTyped
    /\ tool.name = "activateQuickRoles"
    /\ Len(calls) = 1
    /\ result.returned
    /\ ~result.success

====
